---- MODULE Spec2Model ----
(***************************************************************************)
(* TelegramPCManager (src/bot.py): the access gate, the safety filters,    *)
(* the upload handlers and the microphone recording session.               *)
(*                                                                         *)
(* Text is a sequence of one-character strings, so that lower-casing,      *)
(* substring search, splitting and suffix extraction are computed.         *)
(***************************************************************************)
EXTENDS Integers, Sequences, FiniteSets, TLC

VARIABLES
    unauthorized_attempts, \* _unauthorized_attempts, read with .get(id, 0)
    diagnostics,           \* per id: the attempt numbers printed by the gate
    last,                  \* what the last inbound event did
    handled,               \* ids for which a handler body was invoked
    downloads,             \* the file names present in DOWNLOADS_DIR
    recording,             \* _recording
    recording_data,        \* _recording_data
    recording_stream,      \* _recording_stream: index into streams, 0 = none yet
    streams,               \* every capture stream ever constructed, with its status
    cbPc,                  \* the capture thread's position in callback()
    loopPc,                \* the event loop's position in stop_recording()
    probe,                 \* a filename given to is_file_allowed, and its verdict
    cached_volume_level,   \* _cached_volume_level
    volume_interface,      \* _volume_interface: 0 = None, d = the handle of device d
    host,                  \* the PC: per-device volume and mute, default device,
                           \* brightness, pending shutdown
    display,               \* what the menu message under the operator's finger shows
    inflight,              \* the handlers suspended at an await, with their locals
    startup                \* main(): its position and what the broadcast did so far

gateVars == <<unauthorized_attempts, diagnostics>>
recVars == <<recording, recording_data, recording_stream, streams, cbPc, loopPc>>
hostVars == <<cached_volume_level, volume_interface, host, display, inflight,
              startup>>
vars == <<unauthorized_attempts, diagnostics, last, handled, downloads,
          recording, recording_data, recording_stream, streams, cbPc, loopPc, probe,
          cached_volume_level, volume_interface, host, display, inflight,
          startup>>

----------------------------------------------------------------------------
(* Text helpers *)

UpperCase == <<"A","B","C","D","E","F","G","H","I","J","K","L","M",
               "N","O","P","Q","R","S","T","U","V","W","X","Y","Z">>
LowerCase == <<"a","b","c","d","e","f","g","h","i","j","k","l","m",
               "n","o","p","q","r","s","t","u","v","w","x","y","z">>

\* str.lower() on one character
lower_char(c) ==
    IF \E i \in 1..Len(UpperCase) : UpperCase[i] = c
    THEN LowerCase[CHOOSE i \in 1..Len(UpperCase) : UpperCase[i] = c]
    ELSE c

\* str.lower()
lower(s) == [i \in 1..Len(s) |-> lower_char(s[i])]

\* s[i:] for a 0-based index i
From(s, i) == SubSeq(s, i + 1, Len(s))

\* s.startswith(p)
startswith(s, p) == Len(p) <= Len(s) /\ SubSeq(s, 1, Len(p)) = p

\* p in s, as a left-to-right scan over the start positions
RECURSIVE find_from(_, _, _)
find_from(s, p, i) ==
    IF i + Len(p) > Len(s) THEN FALSE
    ELSE IF SubSeq(s, i + 1, i + Len(p)) = p THEN TRUE
    ELSE find_from(s, p, i + 1)

contains(s, p) == find_from(s, p, 0)

\* s.rfind(c): the 0-based index of the last c in s, -1 when there is none
RECURSIVE rfind_from(_, _, _)
rfind_from(s, c, i) ==
    IF i = 0 THEN -1
    ELSE IF s[i] = c THEN i - 1
    ELSE rfind_from(s, c, i - 1)

rfind(s, c) == rfind_from(s, c, Len(s))

IsSpace(c) == c = " "

\* the number of leading whitespace characters of s
RECURSIVE leading_spaces(_)
leading_spaces(s) ==
    IF s = <<>> \/ ~IsSpace(Head(s)) THEN 0 ELSE 1 + leading_spaces(Tail(s))

\* the length of the first whitespace-free run of s
RECURSIVE word_len(_)
word_len(s) ==
    IF s = <<>> \/ IsSpace(Head(s)) THEN 0 ELSE 1 + word_len(Tail(s))

\* str.split(maxsplit=1): leading whitespace is skipped, the first word is cut at
\* the next whitespace run, and what follows that run is kept as it is
split1(s) ==
    LET a == From(s, leading_spaces(s))
        w == word_len(a)
        b == From(a, w)
        r == From(b, leading_spaces(b))
    IN  IF a = <<>> THEN <<>>
        ELSE IF r = <<>> THEN <<SubSeq(a, 1, w)>>
        ELSE <<SubSeq(a, 1, w), r>>

----------------------------------------------------------------------------
(* AccessGate *)

Users == {1, 2, 3}

\* config.ALLOWED_USER_IDS: the static allow-list
ALLOWED_USER_IDS == {1, 2}

\* the ids outside the allow-list
Strangers == Users \ ALLOWED_USER_IDS

MAX_ATTEMPTS == 5

is_authorized(user_id) == user_id \in ALLOWED_USER_IDS

\* a lockout shared by all ids: any id over the threshold blocks everyone
is_blocked_shared(user_id) ==
    \E u \in Users : unauthorized_attempts[u] > MAX_ATTEMPTS

is_blocked(user_id) == unauthorized_attempts[user_id] > MAX_ATTEMPTS

\* the record is printed for fewer than MAX_ATTEMPTS attempts
log_unauthorized_attempt_strict(user_id) ==
    LET n == unauthorized_attempts[user_id] + 1
    IN  /\ unauthorized_attempts' = [unauthorized_attempts EXCEPT ![user_id] = n]
        /\ diagnostics' =
              IF n < MAX_ATTEMPTS
              THEN [diagnostics EXCEPT ![user_id] = @ \cup {n}]
              ELSE diagnostics

\* the counter is incremented first; the record is printed up to MAX_ATTEMPTS
log_unauthorized_attempt(user_id) ==
    LET n == unauthorized_attempts[user_id] + 1
    IN  /\ unauthorized_attempts' = [unauthorized_attempts EXCEPT ![user_id] = n]
        /\ diagnostics' =
              IF n <= MAX_ATTEMPTS
              THEN [diagnostics EXCEPT ![user_id] = @ \cup {n}]
              ELSE diagnostics

NoEvent ==
    [uid |-> 0, kind |-> "none", handler |-> "none", arg |-> <<>>, gate |-> "none",
     attempt |-> 0, diag |-> FALSE, wasBlocked |-> FALSE,
     replies |-> <<>>, calls |-> <<>>]

\* the record of an event that the gate did not pass on
Gated(uid, kind, name, arg, gate, replies) ==
    [uid |-> uid, kind |-> kind, handler |-> name, arg |-> arg, gate |-> gate,
     attempt |-> unauthorized_attempts'[uid],
     diag |-> diagnostics'[uid] # diagnostics[uid],
     wasBlocked |-> is_blocked(uid),
     replies |-> replies, calls |-> <<>>]

\* a handler body that ran: its visible replies and its provider calls
Ran(uid, kind, name, arg, replies, calls) ==
    /\ last' = [uid |-> uid, kind |-> kind, handler |-> name, arg |-> arg,
                gate |-> "Admit", attempt |-> unauthorized_attempts[uid],
                diag |-> FALSE, wasBlocked |-> is_blocked(uid),
                replies |-> replies, calls |-> calls]
    /\ handled' = handled \cup {uid}

\* a gate that tests the lockout only: every id not blocked reaches the handler
auth_middleware_open(uid, name, arg, handler) ==
    IF is_blocked(uid)
    THEN /\ UNCHANGED gateVars
         /\ last' = Gated(uid, "message", name, arg, "Drop", <<>>)
         /\ UNCHANGED <<handled, downloads, recVars, probe, hostVars>>
    ELSE /\ handler
         /\ UNCHANGED gateVars

\* a gate that starts the count again once the threshold is passed
auth_middleware_decay(uid, name, arg, handler) ==
    IF ~is_authorized(uid)
    THEN /\ unauthorized_attempts' =
              [unauthorized_attempts EXCEPT
                 ![uid] = IF @ > MAX_ATTEMPTS THEN 0 ELSE @ + 1]
         /\ UNCHANGED diagnostics
         /\ last' = Gated(uid, "message", name, arg, "Drop", <<>>)
         /\ UNCHANGED <<handled, downloads, recVars, probe, hostVars>>
    ELSE /\ handler
         /\ UNCHANGED gateVars

\* a message gate without the lockout test: a blocked id is still counted
auth_middleware_counting(uid, name, arg, handler) ==
    IF ~is_authorized(uid)
    THEN /\ log_unauthorized_attempt(uid)
         /\ last' = Gated(uid, "message", name, arg, "Drop", <<>>)
         /\ UNCHANGED <<handled, downloads, recVars, probe, hostVars>>
    ELSE /\ handler
         /\ UNCHANGED gateVars

\* auth_middleware: handler is the action of the routed handler
auth_middleware(uid, name, arg, handler) ==
    IF is_blocked(uid)
    THEN /\ UNCHANGED gateVars
         /\ last' = Gated(uid, "message", name, arg, "Drop", <<>>)
         /\ UNCHANGED <<handled, downloads, recVars, probe, hostVars>>
    ELSE IF ~is_authorized(uid)
    THEN /\ log_unauthorized_attempt(uid)
         /\ last' = Gated(uid, "message", name, arg, "Drop", <<>>)
         /\ UNCHANGED <<handled, downloads, recVars, probe, hostVars>>
    ELSE /\ handler
         /\ UNCHANGED gateVars

\* a callback gate that drops an id outside the allow-list without the alert
auth_callback_middleware_silent(uid, name, arg, handler) ==
    IF is_blocked(uid)
    THEN /\ UNCHANGED gateVars
         /\ last' = Gated(uid, "callback", name, arg, "Drop", <<>>)
         /\ UNCHANGED <<handled, downloads, recVars, probe, hostVars>>
    ELSE IF ~is_authorized(uid)
    THEN /\ log_unauthorized_attempt(uid)
         /\ last' = Gated(uid, "callback", name, arg, "Drop", <<>>)
         /\ UNCHANGED <<handled, downloads, recVars, probe, hostVars>>
    ELSE /\ handler
         /\ UNCHANGED gateVars

\* a callback gate without the lockout test: a blocked id is still counted and
\* alerted
auth_callback_middleware_unlocked(uid, name, arg, handler) ==
    IF ~is_authorized(uid)
    THEN /\ log_unauthorized_attempt(uid)
         /\ last' = Gated(uid, "callback", name, arg, "Alert", <<"alert_no_access">>)
         /\ UNCHANGED <<handled, downloads, recVars, probe, hostVars>>
    ELSE /\ handler
         /\ UNCHANGED gateVars

\* auth_callback_middleware
auth_callback_middleware(uid, name, arg, handler) ==
    IF is_blocked(uid)
    THEN /\ UNCHANGED gateVars
         /\ last' = Gated(uid, "callback", name, arg, "Drop", <<>>)
         /\ UNCHANGED <<handled, downloads, recVars, probe, hostVars>>
    ELSE IF ~is_authorized(uid)
    THEN /\ log_unauthorized_attempt(uid)
         /\ last' = Gated(uid, "callback", name, arg, "Alert", <<"alert_no_access">>)
         /\ UNCHANGED <<handled, downloads, recVars, probe, hostVars>>
    ELSE /\ handler
         /\ UNCHANGED gateVars

----------------------------------------------------------------------------
(* Text commands *)

\* cmd_start
cmd_start(uid) ==
    IF ~is_authorized(uid)
    THEN /\ Ran(uid, "message", "cmd_start", <<>>, <<"no_access">>, <<>>)
         /\ UNCHANGED <<downloads, recVars, probe, hostVars>>
    ELSE /\ Ran(uid, "message", "cmd_start", <<>>, <<"welcome">>, <<>>)
         /\ UNCHANGED <<downloads, recVars, probe, hostVars>>

dangerous_patterns ==
    { <<"f","o","r","m","a","t">>,
      <<"d","e","l"," ","/","s">>,
      <<"r","d"," ","/","s">>,
      <<"r","m","d","i","r"," ","/","s">>,
      <<":","(",")","{",":","|">>,
      <<"r","m"," ","-","r","f">> }

\* the patterns matched against the command as typed, without lower()
is_dangerous_as_typed(command) ==
    \E p \in dangerous_patterns : contains(command, p)

\* any(p in command.lower() for p in dangerous_patterns)
is_dangerous(command) ==
    LET lowered == lower(command)
    IN  \E p \in dangerous_patterns : contains(lowered, p)

\* the cap of len(output) > 4000 and output[:4000]
OUTPUT_CAP == 4000

\* "\n... (обрезано)", its word in Latin letters
TRUNCATION_MARKER == <<"\n",".",".","."," ","(","o","b","r","e","z","a","n","o",")">>

\* the notice sent for a run without output
NO_OUTPUT == <<"[ok]"," ","V","y","p","o","l","n","e","n","o">>

Completed(stdout, stderr) == [kind |-> "completed", stdout |-> stdout, stderr |-> stderr]

TimeoutExpired == [kind |-> "timeout", stdout |-> <<>>, stderr |-> <<>>]

OtherError == [kind |-> "error", stdout |-> <<>>, stderr |-> <<>>]

\* the results of subprocess.run(command, shell=True, timeout=30) that the gate,
\* /cmd and text specifications use: a short output, the timeout, another
\* exception
CoreRuns == {Completed(<<"o">>, <<>>), TimeoutExpired, OtherError}

\* result.stdout or result.stderr or the notice, cut to the cap
shell_output(run) ==
    LET output == IF run.stdout # <<>> THEN run.stdout
                  ELSE IF run.stderr # <<>> THEN run.stderr
                  ELSE NO_OUTPUT
    IN  IF Len(output) > OUTPUT_CAP
        THEN SubSeq(output, 1, OUTPUT_CAP) \o TRUNCATION_MARKER
        ELSE output

\* the transport parses a text sent with ParseMode.HTML: a "<" or "&" of the
\* text that opens no supported tag or entity makes it refuse the message
html_refused(body) == \E i \in 1..Len(body) : body[i] \in {"<", "&"}

\* what the operator is sent for a run: the output inside <pre></pre>; the error
\* report when the transport refuses that message, when the run timed out and
\* when it raised otherwise
shell_reply(run) ==
    IF run.kind = "timeout" THEN "timeout"
    ELSE IF run.kind = "error" THEN "error"
    ELSE IF html_refused(shell_output(run)) THEN "error"
    ELSE "output"

\* cmd_execute; runs are the results subprocess.run can have
cmd_execute_on(uid, text, runs) ==
    LET args == split1(text)
    IN  IF ~is_authorized(uid)
        THEN /\ Ran(uid, "message", "cmd_execute", text, <<>>, <<>>)
             /\ UNCHANGED <<downloads, recVars, probe, hostVars>>
        ELSE IF Len(args) < 2
        THEN /\ Ran(uid, "message", "cmd_execute", text, <<"usage">>, <<>>)
             /\ UNCHANGED <<downloads, recVars, probe, hostVars>>
        ELSE IF is_dangerous(args[2])
        THEN /\ Ran(uid, "message", "cmd_execute", text, <<"refused">>, <<>>)
             /\ UNCHANGED <<downloads, recVars, probe, hostVars>>
        ELSE /\ \E run \in runs :
                    Ran(uid, "message", "cmd_execute", text, <<shell_reply(run)>>,
                        <<[provider |-> "shell", arg |-> args[2], run |-> run,
                           sent |-> IF shell_reply(run) = "output"
                                    THEN shell_output(run) ELSE <<>>]>>)
             /\ UNCHANGED <<downloads, recVars, probe, hostVars>>

\* cmd_execute with the results of CoreRuns
cmd_execute(uid, text) == cmd_execute_on(uid, text, CoreRuns)

MessageStart(uid) ==
    auth_middleware(uid, "cmd_start", <<>>, cmd_start(uid))

MessageCmd(uid, text) ==
    auth_middleware(uid, "cmd_execute", text, cmd_execute(uid, text))

----------------------------------------------------------------------------
(* File uploads *)

BLOCKED_EXTENSIONS ==
    { <<".","e","x","e">>, <<".","b","a","t">>, <<".","c","m","d">>,
      <<".","c","o","m">>, <<".","s","c","r">>, <<".","p","i","f">>,
      <<".","m","s","i">>, <<".","m","s","p">>,
      <<".","v","b","s">>, <<".","v","b","e">>, <<".","j","s">>,
      <<".","j","s","e">>, <<".","w","s">>, <<".","w","s","f">>,
      <<".","w","s","c">>, <<".","w","s","h">>,
      <<".","p","s","1">>, <<".","p","s","m","1">>, <<".","p","s","d","1">>,
      <<".","r","e","g">>,
      <<".","l","n","k">>,
      <<".","d","l","l">>, <<".","s","y","s">>,
      <<".","j","a","r">> }

IsSep(c) == c = "/" \/ c = "\\"

\* the path without its trailing separators
RECURSIVE strip_trailing_seps(_)
strip_trailing_seps(s) ==
    IF s # <<>> /\ IsSep(s[Len(s)])
    THEN strip_trailing_seps(SubSeq(s, 1, Len(s) - 1))
    ELSE s

\* the 0-based index of the last separator of s, -1 when there is none
RECURSIVE last_sep(_, _)
last_sep(s, i) ==
    IF i = 0 THEN -1
    ELSE IF IsSep(s[i]) THEN i - 1
    ELSE last_sep(s, i - 1)

\* Path(filename).name: the final path component (paths without a drive and
\* without "." components)
path_name(filename) ==
    LET t == strip_trailing_seps(filename)
    IN  From(t, last_sep(t, Len(t)) + 1)

\* the 0-based index at which the suffix of a name starts, -1 when it has none:
\* splitext cuts at the last dot unless only dots precede it
suffix_index(name) ==
    LET dot == rfind(name, ".")
    IN  IF dot = -1 THEN -1
        ELSE IF \A i \in 1..dot : name[i] = "." THEN -1
        ELSE dot

\* Path(filename).suffix
path_suffix(filename) ==
    LET name == path_name(filename)
        i == suffix_index(name)
    IN  IF i = -1 THEN <<>> ELSE From(name, i)

\* Path(filename).stem
path_stem(filename) ==
    LET name == path_name(filename)
        i == suffix_index(name)
    IN  IF i = -1 THEN name ELSE SubSeq(name, 1, i)

\* the suffix compared as typed, without lower()
is_file_allowed_as_typed(filename) ==
    IF filename = <<>> THEN TRUE
    ELSE path_suffix(filename) \notin BLOCKED_EXTENSIONS

\* is_file_allowed
is_file_allowed(filename) ==
    IF filename = <<>> THEN TRUE
    ELSE lower(path_suffix(filename)) \notin BLOCKED_EXTENSIONS

\* datetime.now(): the clock readings a handler can see
Timestamps == { <<"0">>, <<"1">> }

\* strftime("%Y%m%d_%H%M%S") and strftime("%H%M%S")
long_stamp(t) == <<"d","_">> \o t
short_stamp(t) == t

Download(path) == [provider |-> "download", arg |-> path]

\* bot.get_file and bot.download_file return or raise
FetchOutcomes == {"fetched", "raises"}

\* handle_photo
handle_photo(uid) ==
    IF ~is_authorized(uid)
    THEN /\ Ran(uid, "message", "handle_photo", <<>>, <<>>, <<>>)
         /\ UNCHANGED <<downloads, recVars, probe, hostVars>>
    ELSE \E t \in Timestamps, fetch \in FetchOutcomes :
            LET filename == <<"p","h","o","t","o","_">> \o long_stamp(t)
                               \o <<".","j","p","g">>
            IN  IF fetch = "raises"
                THEN /\ Ran(uid, "message", "handle_photo", <<>>, <<"error">>, <<>>)
                     /\ UNCHANGED <<downloads, recVars, probe, hostVars>>
                ELSE /\ Ran(uid, "message", "handle_photo", <<>>, <<"photo_saved">>,
                            <<Download(filename),
                              [provider |-> "startfile", arg |-> filename]>>)
                     /\ downloads' = downloads \cup {filename}
                     /\ UNCHANGED <<recVars, probe, hostVars>>

\* handle_document: file_name is doc.file_name, <<>> when the transport gives
\* none; t and t2 are the clock readings of the generated name and of the
\* collision suffix, and the file is classified before anything is fetched
handle_document(uid, file_name) ==
    IF ~is_authorized(uid)
    THEN /\ Ran(uid, "message", "handle_document", file_name, <<>>, <<>>)
         /\ UNCHANGED <<downloads, recVars, probe, hostVars>>
    ELSE \E t \in Timestamps :
            LET filename == IF file_name # <<>> THEN file_name
                            ELSE <<"f","i","l","e","_">> \o long_stamp(t)
            IN  IF ~is_file_allowed(filename)
                THEN /\ Ran(uid, "message", "handle_document", file_name,
                            <<"blocked">>, <<>>)
                     /\ UNCHANGED <<downloads, recVars, probe, hostVars>>
                ELSE \E t2 \in Timestamps, fetch \in FetchOutcomes :
                        LET filepath ==
                                IF filename \in downloads
                                THEN path_stem(filename) \o <<"_">>
                                        \o short_stamp(t2) \o path_suffix(filename)
                                ELSE filename
                        IN  IF fetch = "raises"
                            THEN /\ Ran(uid, "message", "handle_document",
                                        file_name, <<"error">>, <<>>)
                                 /\ UNCHANGED <<downloads, recVars, probe, hostVars>>
                            ELSE /\ Ran(uid, "message", "handle_document",
                                        file_name, <<"file_saved">>,
                                        <<Download(filepath)>>)
                                 /\ downloads' = downloads \cup {filepath}
                                 /\ UNCHANGED <<recVars, probe, hostVars>>

\* handle_video: the transfer raises in get_file, before the progress notice, or
\* in download_file, after it
handle_video(uid, file_name) ==
    IF ~is_authorized(uid)
    THEN /\ Ran(uid, "message", "handle_video", file_name, <<>>, <<>>)
         /\ UNCHANGED <<downloads, recVars, probe, hostVars>>
    ELSE \E t \in Timestamps, fetch \in FetchOutcomes :
            LET filename == IF file_name # <<>> THEN file_name
                            ELSE <<"v","i","d","e","o","_">> \o long_stamp(t)
                                    \o <<".","m","p","4">>
            IN  IF fetch = "raises"
                THEN /\ \E said \in {<<>>, <<"downloading">>} :
                            Ran(uid, "message", "handle_video", file_name,
                                said \o <<"error">>, <<>>)
                     /\ UNCHANGED <<downloads, recVars, probe, hostVars>>
                ELSE /\ Ran(uid, "message", "handle_video", file_name,
                            <<"downloading", "video_saved">>, <<Download(filename)>>)
                     /\ downloads' = downloads \cup {filename}
                     /\ UNCHANGED <<recVars, probe, hostVars>>

\* handle_audio
handle_audio(uid, file_name) ==
    IF ~is_authorized(uid)
    THEN /\ Ran(uid, "message", "handle_audio", file_name, <<>>, <<>>)
         /\ UNCHANGED <<downloads, recVars, probe, hostVars>>
    ELSE \E t \in Timestamps, fetch \in FetchOutcomes :
            LET filename == IF file_name # <<>> THEN file_name
                            ELSE <<"a","u","d","i","o","_">> \o long_stamp(t)
                                    \o <<".","m","p","3">>
            IN  IF fetch = "raises"
                THEN /\ Ran(uid, "message", "handle_audio", file_name,
                            <<"error">>, <<>>)
                     /\ UNCHANGED <<downloads, recVars, probe, hostVars>>
                ELSE /\ Ran(uid, "message", "handle_audio", file_name,
                            <<"audio_saved">>, <<Download(filename)>>)
                     /\ downloads' = downloads \cup {filename}
                     /\ UNCHANGED <<recVars, probe, hostVars>>

\* handle_voice
handle_voice(uid) ==
    IF ~is_authorized(uid)
    THEN /\ Ran(uid, "message", "handle_voice", <<>>, <<>>, <<>>)
         /\ UNCHANGED <<downloads, recVars, probe, hostVars>>
    ELSE \E t \in Timestamps, fetch \in FetchOutcomes :
            LET filename == <<"v","o","i","c","e","_">> \o long_stamp(t)
                               \o <<".","o","g","g">>
            IN  IF fetch = "raises"
                THEN /\ Ran(uid, "message", "handle_voice", <<>>, <<"error">>, <<>>)
                     /\ UNCHANGED <<downloads, recVars, probe, hostVars>>
                ELSE /\ Ran(uid, "message", "handle_voice", <<>>, <<"voice_saved">>,
                            <<Download(filename)>>)
                     /\ downloads' = downloads \cup {filename}
                     /\ UNCHANGED <<recVars, probe, hostVars>>

\* an upload event; room bounds the number of files the disk holds
MessagePhoto(uid, room) ==
    /\ auth_middleware(uid, "handle_photo", <<>>, handle_photo(uid))
    /\ Cardinality(downloads') <= room

MessageDocument(uid, file_name, room) ==
    /\ auth_middleware(uid, "handle_document", file_name,
                       handle_document(uid, file_name))
    /\ Cardinality(downloads') <= room

MessageVideo(uid, file_name, room) ==
    /\ auth_middleware(uid, "handle_video", file_name, handle_video(uid, file_name))
    /\ Cardinality(downloads') <= room

MessageAudio(uid, file_name, room) ==
    /\ auth_middleware(uid, "handle_audio", file_name, handle_audio(uid, file_name))
    /\ Cardinality(downloads') <= room

MessageVoice(uid, room) ==
    /\ auth_middleware(uid, "handle_voice", <<>>, handle_voice(uid))
    /\ Cardinality(downloads') <= room

\* is_file_allowed applied to the filename under probe
ApplyFileAllowed ==
    /\ probe.verdict = "none"
    /\ probe' = [probe EXCEPT !.verdict =
                    IF is_file_allowed(probe.filename) THEN "allow" ELSE "deny"]
    /\ UNCHANGED <<gateVars, last, handled, downloads, recVars, hostVars>>

----------------------------------------------------------------------------
(* Microphone recording *)

\* at most MaxFrames frames are buffered
MaxFrames == 2

\* the content of one captured frame (indata.copy())
FrameData == {"a", "b"}

Active(i) == streams[i] = "active"

\* the streams that were opened and have not been closed
OpenStreams == {i \in 1..Len(streams) : streams[i] # "closed"}

\* the outcomes of start_recording's try block: the stream is opened and started,
\* sd.InputStream raises, or stream.start raises on the opened stream
StartOutcomes == {"ok", "open_fails", "start_fails"}

\* a start that does not test the flag: the buffer and the stream are replaced
start_recording_restart(outcome) ==
    /\ recording_data' = <<>>
    /\ recording' = (outcome = "ok")
    /\ streams' = Append(streams, "active")
    /\ cbPc' = Append(cbPc, "idle")
    /\ recording_stream' = Len(streams) + 1
    /\ UNCHANGED loopPc

\* a start whose except branch leaves the flag raised
start_recording_no_reset(outcome) ==
    IF recording
    THEN UNCHANGED recVars
    ELSE /\ recording_data' = <<>>
         /\ recording' = TRUE
         /\ streams' = CASE outcome = "ok" -> Append(streams, "active")
                         [] outcome = "start_fails" -> Append(streams, "open")
                         [] OTHER -> streams
         /\ cbPc' = IF outcome = "open_fails" THEN cbPc ELSE Append(cbPc, "idle")
         /\ recording_stream' = IF outcome = "ok" THEN Len(streams) + 1
                                ELSE recording_stream
         /\ UNCHANGED loopPc

\* start_recording: TRUE when the recording started
start_recording_result(outcome) == ~recording /\ outcome = "ok"

start_recording(outcome) ==
    IF recording
    THEN UNCHANGED recVars
    ELSE /\ recording_data' = <<>>
         /\ recording' = (outcome = "ok")
         /\ streams' = CASE outcome = "ok" -> Append(streams, "active")
                         [] outcome = "start_fails" -> Append(streams, "open")
                         [] OTHER -> streams
         /\ cbPc' = IF outcome = "open_fails" THEN cbPc ELSE Append(cbPc, "idle")
         /\ recording_stream' = IF outcome = "ok" THEN Len(streams) + 1
                                ELSE recording_stream
         /\ UNCHANGED loopPc

\* callback(indata, ...) on the capture thread of stream i: the test of _recording
CallbackCheck(i, d) ==
    /\ Active(i)
    /\ cbPc[i] = "idle"
    /\ recording
    /\ Len(recording_data) < MaxFrames
    /\ cbPc' = [cbPc EXCEPT ![i] = d]
    /\ UNCHANGED <<gateVars, last, handled, downloads, probe, hostVars, recording,
                   recording_data, recording_stream, streams, loopPc>>

\* callback(indata, ...): the append that follows the test
CallbackAppend(i) ==
    /\ cbPc[i] # "idle"
    /\ recording_data' = Append(recording_data, cbPc[i])
    /\ cbPc' = [cbPc EXCEPT ![i] = "idle"]
    /\ UNCHANGED <<gateVars, last, handled, downloads, probe, hostVars, recording,
                   recording_stream, streams, loopPc>>

\* the outcomes of stop_recording's try block: stream.stop() and stream.close()
\* are called with their default ignore_errors, so the block raises, if at all,
\* in the concatenation and encoding that follow them
StopOutcomes == {"ok", "encode_fails"}

\* a stop that does not test the flag: it goes on to the stream and the buffer
stop_recording_begin_unguarded ==
    /\ recording' = FALSE
    /\ loopPc' = "stopping"
    /\ UNCHANGED <<recording_data, recording_stream, streams, cbPc>>

\* stop_recording up to the flag: a recording that is active is marked stopped
stop_recording_begin ==
    IF ~recording
    THEN UNCHANGED recVars
    ELSE /\ recording' = FALSE
         /\ loopPc' = "stopping"
         /\ UNCHANGED <<recording_data, recording_stream, streams, cbPc>>

\* np.concatenate and wave.open(...).writeframes: a container header followed by
\* the samples of the frames in buffer order
encode_wav(frames) == <<"wav_header">> \o frames

\* a payload that holds the first buffered frame only
stop_recording_result_first_only(outcome) ==
    IF outcome = "ok" /\ recording_data # <<>>
    THEN encode_wav(<<Head(recording_data)>>)
    ELSE <<>>

\* what stop_recording returns, None as <<>>: None when the buffer is empty or
\* the try block raised, else the encoded frames
stop_recording_result(outcome) ==
    IF outcome = "ok" /\ recording_data # <<>>
    THEN encode_wav(recording_data)
    ELSE <<>>

\* a stream.stop() that returns while a callback is still between its test and
\* its append
stop_recording_finish_no_wait(outcome) ==
    /\ streams' = IF recording_stream = 0 THEN streams
                  ELSE [streams EXCEPT ![recording_stream] = "closed"]
    /\ recording_data' = <<>>
    /\ loopPc' = "idle"
    /\ UNCHANGED <<recording, recording_stream, cbPc>>

\* stop_recording from the try block on: stream.stop() returns once the callback
\* in progress has returned; the buffer is cleared in every case
stop_recording_finish(outcome) ==
    /\ recording_stream = 0 \/ cbPc[recording_stream] = "idle"
    /\ streams' = IF recording_stream = 0 THEN streams
                  ELSE [streams EXCEPT ![recording_stream] = "closed"]
    /\ recording_data' = <<>>
    /\ loopPc' = "idle"
    /\ UNCHANGED <<recording, recording_stream, cbPc>>

\* str.replace(old, ""): every occurrence of old is removed, left to right
RECURSIVE remove_all(_, _)
remove_all(s, old) ==
    IF s = <<>> THEN <<>>
    ELSE IF startswith(s, old) THEN remove_all(From(s, Len(old)), old)
    ELSE <<Head(s)>> \o remove_all(Tail(s), old)

REC == <<"r","e","c","_">>
START == <<"s","t","a","r","t">>
STOP == <<"s","t","o","p">>

\* the rec_ tokens an operator can send
RecTokens == { REC \o START, REC \o STOP, REC \o <<"x">>, REC \o REC \o START }

\* the transport accepts an in-place edit or rejects it (TelegramBadRequest)
EditOutcomes == {"edited", "rejected"}

\* callback_record: a rejected edit raises out of the handler
callback_record(uid, data) ==
    LET action == remove_all(data, REC)
    IN  IF ~is_authorized(uid)
        THEN /\ Ran(uid, "callback", "callback_record", data,
                    <<"answer_no_access">>, <<>>)
             /\ UNCHANGED <<downloads, recVars, probe, hostVars>>
        ELSE IF action = START
        THEN IF recording
             THEN /\ start_recording("ok")
                  /\ Ran(uid, "callback", "callback_record", data,
                         <<"alert_not_started">>, <<>>)
                  /\ UNCHANGED <<downloads, probe, hostVars>>
             ELSE \E outcome \in StartOutcomes :
                     /\ start_recording(outcome)
                     /\ \E edit \in IF outcome = "ok" THEN EditOutcomes
                                    ELSE {"edited"} :
                           Ran(uid, "callback", "callback_record", data,
                               IF ~start_recording_result(outcome)
                               THEN <<"alert_not_started">>
                               ELSE IF edit = "edited"
                               THEN <<"edit_recording", "answer_started">>
                               ELSE <<"raise">>,
                               <<[provider |-> "capture", arg |-> outcome]>>)
                     /\ UNCHANGED <<downloads, probe, hostVars>>
        ELSE IF action = STOP
        THEN \E edit \in EditOutcomes :
                IF edit = "rejected"
                THEN /\ Ran(uid, "callback", "callback_record", data, <<"raise">>, <<>>)
                     /\ UNCHANGED <<downloads, recVars, probe, hostVars>>
                ELSE /\ stop_recording_begin
                     /\ Ran(uid, "callback", "callback_record", data,
                            IF recording THEN <<"edit_processing", "answer">>
                            ELSE <<"edit_processing", "answer", "edit_error">>,
                            <<>>)
                     /\ UNCHANGED <<downloads, probe, hostVars>>
        ELSE /\ Ran(uid, "callback", "callback_record", data, <<>>, <<>>)
             /\ UNCHANGED <<downloads, recVars, probe, hostVars>>

\* callback_record after stop_recording's flag: the rest of stop_recording and the
\* replies that follow it
RecordStopFinish ==
    /\ loopPc = "stopping"
    /\ \E outcome \in StopOutcomes :
          /\ stop_recording_finish(outcome)
          /\ last' = [last EXCEPT
                        !.replies = @ \o (IF stop_recording_result(outcome) # <<>>
                                          THEN <<"answer_audio", "delete">>
                                          ELSE <<"edit_error">>),
                        !.calls = <<[provider |-> "capture_stop", arg |-> outcome]>>
                                  \o (IF stop_recording_result(outcome) # <<>>
                                      THEN <<[provider |-> "answer_audio",
                                              arg |-> stop_recording_result(outcome)]>>
                                      ELSE <<>>)]
    /\ UNCHANGED <<gateVars, handled, downloads, probe, hostVars>>

\* a rec_ callback event; cap bounds the number of streams ever constructed
CallbackRecord(uid, data, cap) ==
    /\ auth_callback_middleware(uid, "callback_record", data,
                                callback_record(uid, data))
    /\ Len(streams') <= cap

----------------------------------------------------------------------------
(* Volume and audio devices *)

\* the output devices of the PC, in get_audio_devices() order
Devices == {1, 2}

\* a level passed on as it comes
clamp_open(level) == level

\* max(0, min(100, level))
clamp(level) == IF level < 0 THEN 0 ELSE IF level > 100 THEN 100 ELSE level

\* the number of binary places k at which level / 100 has a 24-bit significand
RECURSIVE scalar_places(_, _)
scalar_places(level, k) ==
    IF level * (2 ^ k) >= 100 * (2 ^ 23) THEN k ELSE scalar_places(level, k + 1)

\* level / 100 as the single-precision float that SetMasterVolumeLevelScalar
\* takes: <<m, k>> stands for m / 2^k, rounded to nearest, ties to even
to_scalar(level) ==
    IF level = 0 THEN <<0, 0>>
    ELSE LET k == scalar_places(level, 0)
             num == level * (2 ^ k)
             q == num \div 100
             r == num % 100
             m == IF 2 * r > 100 \/ (2 * r = 100 /\ q % 2 = 1) THEN q + 1 ELSE q
         IN  <<m, k>>

\* int(scalar * 100): the product is exact, int() drops the fraction
from_scalar(x) == (x[1] * 100) \div (2 ^ x[2])

\* no shutdown or restart is scheduled
NoTimer == [kind |-> "none", seconds |-> 0]

\* the PC when the bot starts
HostAtStart ==
    [scalar |-> [d \in Devices |-> to_scalar(50)],
     mute |-> [d \in Devices |-> FALSE],
     device |-> 1,
     brightness |-> 50,
     timer |-> NoTimer,
     clipboard |-> <<>>]

\* AudioUtilities.GetSpeakers() / EndpointVolume and the query on the handle:
\* each returns or raises, the same way for the whole of one event
Platforms == [resolve : {"resolved", "raises"}, query : {"ok", "raises"}]

\* the part of the state the volume functions work on
VolState == [cached |-> cached_volume_level, iface |-> volume_interface, host |-> host]

\* _get_volume_interface: the handle is resolved for the current default device
\* when none is cached
get_volume_interface(v, env) ==
    IF v.iface = 0 /\ env.resolve = "resolved"
    THEN [v EXCEPT !.iface = v.host.device]
    ELSE v

\* a read that falls back to the initial default when the platform fails
get_current_volume_default(v, env) ==
    LET w == get_volume_interface(v, env)
    IN  IF w.iface # 0 /\ env.query = "ok"
        THEN [w EXCEPT !.cached = from_scalar(w.host.scalar[w.iface])]
        ELSE [w EXCEPT !.cached = 50]

\* get_current_volume: the state after the call; the value returned is its cached
get_current_volume(v, env) ==
    LET w == get_volume_interface(v, env)
    IN  IF w.iface # 0 /\ env.query = "ok"
        THEN [w EXCEPT !.cached = from_scalar(w.host.scalar[w.iface])]
        ELSE w

\* a write that hands the level to the platform as it comes
set_volume_unclamped(v, level, env) ==
    LET w == get_volume_interface(v, env)
    IN  IF w.iface # 0 /\ env.query = "ok"
        THEN [w EXCEPT !.host.scalar[w.iface] = to_scalar(level), !.cached = level]
        ELSE w

\* set_volume
set_volume(v, level, env) ==
    LET lvl == clamp(level)
        w == get_volume_interface(v, env)
    IN  IF w.iface # 0 /\ env.query = "ok"
        THEN [w EXCEPT !.host.scalar[w.iface] = to_scalar(lvl), !.cached = lvl]
        ELSE w

\* is_muted: the value returned (the handle it resolves is kept by the caller)
is_muted(v, env) ==
    LET w == get_volume_interface(v, env)
    IN  IF w.iface # 0 /\ env.query = "ok" THEN w.host.mute[w.iface] ELSE FALSE

\* toggle_mute: through the handle, else through the mute key, which acts on the
\* default device; key is "sent" or "fails"
toggle_mute(v, env, key) ==
    LET w == get_volume_interface(v, env)
    IN  IF w.iface # 0 /\ env.query = "ok"
        THEN [w EXCEPT !.host.mute[w.iface] = ~@]
        ELSE IF key = "sent"
        THEN [w EXCEPT !.host.mute[w.host.device] = ~@]
        ELSE w

\* what toggle_mute returns
toggle_mute_result(v, env) ==
    LET w == get_volume_interface(v, env)
    IN  IF w.iface # 0 /\ env.query = "ok" THEN ~w.host.mute[w.iface] ELSE TRUE

\* a render: the view and the values its text and keyboard show (tag is the
\* device named in a volume view, the sample shown in a system view)
Render(view, n, muted, tag) ==
    [view |-> view, n |-> n, muted |-> muted, tag |-> tag]

\* no menu message has been sent yet
NoMessage == Render("none", 0, FALSE, 0)

----------------------------------------------------------------------------

(* The /volume command and the volume and device menus *)

Digits == <<"0","1","2","3","4","5","6","7","8","9">>

IsDigit(c) == \E i \in 1..Len(Digits) : Digits[i] = c

digit_value(c) == (CHOOSE i \in 1..Len(Digits) : Digits[i] = c) - 1

\* the value of a run of decimal digits, acc being the value read so far
RECURSIVE digits_value(_, _)
digits_value(s, acc) ==
    IF s = <<>> THEN acc ELSE digits_value(Tail(s), 10 * acc + digit_value(Head(s)))

\* str.isdigit()
isdigit(s) == s # <<>> /\ \A i \in 1..Len(s) : IsDigit(s[i])

\* int(s) for a word: an optional sign and decimal digits, ValueError otherwise
parse_int(s) ==
    LET signed == s # <<>> /\ Head(s) \in {"+", "-"}
        body == IF signed THEN Tail(s) ELSE s
    IN  IF isdigit(body)
        THEN [ok |-> TRUE,
              value |-> IF signed /\ Head(s) = "-" THEN 0 - digits_value(body, 0)
                        ELSE digits_value(body, 0)]
        ELSE [ok |-> FALSE, value |-> 0]

\* str.split()[1], <<>> when the text has one word only
second_word(text) ==
    LET args == split1(text)
    IN  IF Len(args) < 2 THEN <<>> ELSE SubSeq(args[2], 1, word_len(args[2]))

\* the module globals and the PC take the values of the volume state w
Commit(w) ==
    /\ cached_volume_level' = w.cached
    /\ volume_interface' = w.iface
    /\ host' = w.host

\* get_default_audio_device: the default device, 0 for "unknown" when
\* GetSpeakers raises
get_default_audio_device(h, env) ==
    IF env.resolve = "resolved" THEN h.device ELSE 0

\* cmd_volume
cmd_volume(uid, text, env) ==
    LET word == second_word(text)
        number == parse_int(word)
        set == set_volume(VolState, number.value, env)
        got == get_current_volume(set, env)
    IN  IF ~is_authorized(uid)
        THEN /\ Ran(uid, "message", "cmd_volume", text, <<>>, <<>>)
             /\ UNCHANGED <<downloads, recVars, probe, hostVars>>
        ELSE IF word = <<>>
        THEN /\ Ran(uid, "message", "cmd_volume", text, <<"usage">>, <<>>)
             /\ UNCHANGED <<downloads, recVars, probe, hostVars>>
        ELSE IF ~number.ok
        THEN /\ Ran(uid, "message", "cmd_volume", text, <<"not_a_number">>, <<>>)
             /\ UNCHANGED <<downloads, recVars, probe, hostVars>>
        ELSE /\ Ran(uid, "message", "cmd_volume", text, <<"volume_set">>,
                    <<[provider |-> "set_volume", arg |-> number.value, env |-> env],
                      [provider |-> "get_current_volume", arg |-> got.cached,
                       env |-> env]>>)
             /\ Commit(got)
             /\ UNCHANGED <<display, downloads, recVars, probe, inflight, startup>>

MessageVolume(uid, text, env) ==
    auth_middleware(uid, "cmd_volume", text, cmd_volume(uid, text, env))

\* a volume menu that shows the level last cached, without a read
volume_menu_cached(v, env) ==
    Render("volume", v.cached, is_muted(v, env),
           get_default_audio_device(v.host, env))

\* the render of the volume menu: level, mute mark and device name
volume_menu(v, env) ==
    LET got == get_current_volume(v, env)
    IN  Render("volume", got.cached, is_muted(got, env),
               get_default_audio_device(got.host, env))

\* menu_volume: a new message with the volume menu
menu_volume(uid, env) ==
    LET got == get_current_volume(VolState, env)
    IN  IF ~is_authorized(uid)
        THEN /\ Ran(uid, "message", "menu_volume", <<>>, <<>>, <<>>)
             /\ UNCHANGED <<downloads, recVars, probe, hostVars>>
        ELSE /\ Ran(uid, "message", "menu_volume", <<>>, <<"volume_menu">>,
                    <<[provider |-> "get_current_volume", arg |-> got.cached,
                       env |-> env]>>)
             /\ Commit(get_volume_interface(got, env))
             /\ display' = volume_menu(VolState, env)
             /\ UNCHANGED <<downloads, recVars, probe, inflight, startup>>

MessageMenuVolume(uid, env) ==
    auth_middleware(uid, "menu_volume", <<>>, menu_volume(uid, env))

----------------------------------------------------------------------------

(* The inline menus *)

VOL == <<"v","o","l","_">>
AUDIO == <<"a","u","d","i","o","_">>
POWER == <<"p","o","w","e","r","_">>
TIMER == <<"t","i","m","e","r","_">>
BR == <<"b","r","_">>
SYS == <<"s","y","s","_">>

MUTE == <<"m","u","t","e">>
MINUS10 == <<"m","i","n","u","s","1","0">>
PLUS10 == <<"p","l","u","s","1","0">>
REFRESH == <<"r","e","f","r","e","s","h">>
DEVICES == <<"d","e","v","i","c","e","s">>
BACK == <<"b","a","c","k">>
SHUTDOWN == <<"s","h","u","t","d","o","w","n">>
RESTART == <<"r","e","s","t","a","r","t">>
SLEEP == <<"s","l","e","e","p">>
LOCK == <<"l","o","c","k">>
CANCEL == <<"c","a","n","c","e","l">>
TIMERS == <<"t","i","m","e","r","s">>
MINUS20 == <<"m","i","n","u","s","2","0">>
PLUS20 == <<"p","l","u","s","2","0">>
PROCESSES == <<"p","r","o","c","e","s","s","e","s">>
DISKS == <<"d","i","s","k","s">>
TEMPS == <<"t","e","m","p","s">>

\* str(n) for 0 <= n < 100000
RECURSIVE str_digits(_)
str_digits(n) == IF n < 10 THEN <<Digits[n + 1]>>
                 ELSE str_digits(n \div 10) \o <<Digits[(n % 10) + 1]>>

\* get_audio_devices(): the enumeration lists the devices in order, or lists
\* none when both the enumerator and its fallback fail
Listings == {<<>>, <<1, 2>>}

\* set_audio_device(): the script's exit status with the default device it leaves
SwitchOutcomes == {"ok", "fails"}

\* the seconds on the buttons of get_timer_keyboard
TimerSeconds == {900, 1800, 3600, 5400, 7200, 10800}

\* the levels on the buttons of get_volume_keyboard and get_brightness_keyboard
VolumeButtons == {0, 25, 50, 75, 100}
BrightnessButtons == {25, 50, 75, 100}

\* the callback_data of the buttons under a render
Keyboard(r) ==
    IF r.view = "volume"
    THEN {VOL \o MUTE, VOL \o MINUS10, VOL \o PLUS10, VOL \o DEVICES, VOL \o REFRESH}
         \cup {VOL \o str_digits(n) : n \in VolumeButtons}
    ELSE IF r.view = "devices"
    THEN {AUDIO \o str_digits(i) : i \in 0..(r.n - 1)} \cup {VOL \o BACK}
    ELSE IF r.view \in {"power", "power_cancelled"}
    THEN {POWER \o SHUTDOWN, POWER \o RESTART, POWER \o SLEEP, POWER \o LOCK,
          POWER \o TIMERS, POWER \o CANCEL}
    ELSE IF r.view \in {"timer", "timer_set", "timer_cancelled"}
    THEN {TIMER \o str_digits(s) : s \in TimerSeconds}
         \cup {TIMER \o CANCEL, TIMER \o BACK}
    ELSE IF r.view = "media"
    THEN {<<"m","e","d","i","a","_">> \o a :
             a \in {<<"p","r","e","v">>, <<"p","l","a","y","p","a","u","s","e">>,
                    <<"n","e","x","t">>, <<"r","e","c","o","r","d">>}}
    ELSE IF r.view = "record"
    THEN {REC \o START}
    ELSE IF r.view = "brightness"
    THEN {BR \o MINUS20, BR \o PLUS20, BR \o REFRESH}
         \cup {BR \o str_digits(n) : n \in BrightnessButtons}
    ELSE IF r.view = "system"
    THEN {SYS \o PROCESSES, SYS \o REFRESH, SYS \o DISKS, SYS \o TEMPS}
    ELSE IF r.view = "processes"
    THEN {SYS \o PROCESSES, SYS \o BACK}
    ELSE IF r.view \in {"disks", "temps"}
    THEN {SYS \o BACK}
    ELSE {}

\* message.edit_text inside try / except TelegramBadRequest: the transport
\* rejects an edit that changes nothing, and the rejection is passed over
guarded_edit(new) == IF new = display THEN <<"edit_rejected">> ELSE <<"edit">>

\* message.edit_text outside a try block: what the handler still says when the
\* edit is its next statement and `then` is what follows the edit
bare_edit(new, then) == IF new = display THEN <<"raise">> ELSE <<"edit">> \o then

\* the mute key of toggle_mute's fallback is sent, or the script fails
MuteKeys == {"sent", "fails"}

\* the render of the device menu
devices_menu(h, listed, env) ==
    Render("devices", Len(listed), FALSE, get_default_audio_device(h, env))

\* what vol_refresh shows: the level it reads for its answer, read again for the
\* menu, with the mute mark and the device name
refresh_render(env) ==
    LET got == get_current_volume(get_current_volume(VolState, env), env)
    IN  Render("volume", got.cached, is_muted(got, env),
               get_default_audio_device(got.host, env))

\* callback_volume
callback_volume(uid, data, env) ==
    LET action == remove_all(data, VOL)
        read == get_current_volume(VolState, env)
    IN  IF ~is_authorized(uid)
        THEN /\ Ran(uid, "callback", "callback_volume", data,
                    <<"answer_no_access">>, <<>>)
             /\ UNCHANGED <<downloads, recVars, probe, hostVars>>
        ELSE IF action = DEVICES
        THEN \E listed \in Listings :
                /\ Ran(uid, "callback", "callback_volume", data,
                       <<"answer">> \o guarded_edit(devices_menu(host, listed, env)),
                       <<>>)
                /\ display' = devices_menu(host, listed, env)
                /\ UNCHANGED <<cached_volume_level, volume_interface, host,
                               downloads, recVars, probe, inflight, startup>>
        ELSE \E key \in IF action = MUTE THEN MuteKeys ELSE {"sent"} :
                LET acted ==
                        IF action = MUTE THEN toggle_mute(VolState, env, key)
                        ELSE IF action = MINUS10
                        THEN get_current_volume(
                                 set_volume(read, read.cached - 10, env), env)
                        ELSE IF action = PLUS10
                        THEN get_current_volume(
                                 set_volume(read, read.cached + 10, env), env)
                        ELSE IF action = REFRESH THEN read
                        ELSE IF action = BACK THEN VolState
                        ELSE IF isdigit(action)
                        THEN set_volume(VolState, digits_value(action, 0), env)
                        ELSE VolState
                    said ==
                        IF action = MUTE
                        THEN IF toggle_mute_result(VolState, env)
                             THEN <<"answer_muted">> ELSE <<"answer_unmuted">>
                        ELSE IF action \in {MINUS10, PLUS10, REFRESH, BACK}
                                \/ isdigit(action)
                        THEN <<"answer">>
                        ELSE <<>>
                    called ==
                        IF action = MUTE
                        THEN <<[provider |-> "toggle_mute", arg |-> key, env |-> env]>>
                        ELSE IF action = MINUS10
                        THEN <<[provider |-> "set_volume", arg |-> read.cached - 10,
                                env |-> env]>>
                        ELSE IF action = PLUS10
                        THEN <<[provider |-> "set_volume", arg |-> read.cached + 10,
                                env |-> env]>>
                        ELSE IF isdigit(action)
                        THEN <<[provider |-> "set_volume",
                                arg |-> digits_value(action, 0), env |-> env]>>
                        ELSE <<>>
                    shown == get_volume_interface(get_current_volume(acted, env), env)
                IN  /\ Ran(uid, "callback", "callback_volume", data,
                           said \o guarded_edit(volume_menu(acted, env)),
                           called \o <<[provider |-> "get_current_volume",
                                        arg |-> shown.cached, env |-> env]>>)
                    /\ Commit(shown)
                    /\ display' = volume_menu(acted, env)
                    /\ UNCHANGED <<downloads, recVars, probe, inflight, startup>>

\* a vol_ button of the displayed message is pressed
CallbackVolume(uid, data, env) ==
    /\ data \in Keyboard(display)
    /\ auth_callback_middleware(uid, "callback_volume", data,
                                callback_volume(uid, data, env))

\* list indexing devices[i]: a negative i counts from the end
py_index(list, i) == IF i < 0 THEN Len(list) + i + 1 ELSE i + 1

\* a device callback that keeps the cached handle after a successful switch
callback_audio_device_keeps_handle(uid, data, env) ==
    LET number == parse_int(remove_all(data, AUDIO))
        device_index == number.value
    IN  IF ~is_authorized(uid)
        THEN /\ Ran(uid, "callback", "callback_audio_device", data,
                    <<"answer_no_access">>, <<>>)
             /\ UNCHANGED <<downloads, recVars, probe, hostVars>>
        ELSE IF ~number.ok
        THEN /\ Ran(uid, "callback", "callback_audio_device", data, <<"raise">>, <<>>)
             /\ UNCHANGED <<downloads, recVars, probe, hostVars>>
        ELSE \E listed \in Listings, relisted \in Listings, switch \in SwitchOutcomes :
                IF device_index >= Len(listed)
                THEN /\ Ran(uid, "callback", "callback_audio_device", data,
                            <<"answer_not_found">>
                            \o guarded_edit(devices_menu(host, relisted, env)), <<>>)
                     /\ display' = devices_menu(host, relisted, env)
                     /\ UNCHANGED <<cached_volume_level, volume_interface, host,
                                    downloads, recVars, probe, inflight, startup>>
                ELSE IF py_index(listed, device_index) < 1
                THEN /\ Ran(uid, "callback", "callback_audio_device", data,
                            <<"raise">>, <<>>)
                     /\ UNCHANGED <<downloads, recVars, probe, hostVars>>
                ELSE LET device == listed[py_index(listed, device_index)]
                         h == IF switch = "ok" THEN [host EXCEPT !.device = device]
                              ELSE host
                     IN  /\ Ran(uid, "callback", "callback_audio_device", data,
                                (IF switch = "ok" THEN <<"answer_switched">>
                                 ELSE <<"answer_switch_failed">>)
                                \o guarded_edit(devices_menu(h, relisted, env)),
                                <<[provider |-> "set_audio_device", arg |-> device,
                                   env |-> switch]>>)
                         /\ host' = h
                         /\ volume_interface' = volume_interface
                         /\ display' = devices_menu(h, relisted, env)
                         /\ UNCHANGED <<cached_volume_level, downloads, recVars, probe, inflight, startup>>

\* callback_audio_device: int() on a token that is not a number and an index
\* before the start of the list raise out of the handler
callback_audio_device(uid, data, env) ==
    LET number == parse_int(remove_all(data, AUDIO))
        device_index == number.value
    IN  IF ~is_authorized(uid)
        THEN /\ Ran(uid, "callback", "callback_audio_device", data,
                    <<"answer_no_access">>, <<>>)
             /\ UNCHANGED <<downloads, recVars, probe, hostVars>>
        ELSE IF ~number.ok
        THEN /\ Ran(uid, "callback", "callback_audio_device", data, <<"raise">>, <<>>)
             /\ UNCHANGED <<downloads, recVars, probe, hostVars>>
        ELSE \E listed \in Listings, relisted \in Listings, switch \in SwitchOutcomes :
                IF device_index >= Len(listed)
                THEN /\ Ran(uid, "callback", "callback_audio_device", data,
                            <<"answer_not_found">>
                            \o guarded_edit(devices_menu(host, relisted, env)), <<>>)
                     /\ display' = devices_menu(host, relisted, env)
                     /\ UNCHANGED <<cached_volume_level, volume_interface, host,
                                    downloads, recVars, probe, inflight, startup>>
                ELSE IF py_index(listed, device_index) < 1
                THEN /\ Ran(uid, "callback", "callback_audio_device", data,
                            <<"raise">>, <<>>)
                     /\ UNCHANGED <<downloads, recVars, probe, hostVars>>
                ELSE LET device == listed[py_index(listed, device_index)]
                         h == IF switch = "ok" THEN [host EXCEPT !.device = device]
                              ELSE host
                     IN  /\ Ran(uid, "callback", "callback_audio_device", data,
                                (IF switch = "ok" THEN <<"answer_switched">>
                                 ELSE <<"answer_switch_failed">>)
                                \o guarded_edit(devices_menu(h, relisted, env)),
                                <<[provider |-> "set_audio_device", arg |-> device,
                                   env |-> switch]>>)
                         /\ host' = h
                         /\ volume_interface' = IF switch = "ok" THEN 0
                                                ELSE volume_interface
                         /\ display' = devices_menu(h, relisted, env)
                         /\ UNCHANGED <<cached_volume_level, downloads, recVars, probe, inflight, startup>>

\* an audio_ button of the displayed message is pressed
CallbackAudioDevice(uid, data, env) ==
    /\ data \in Keyboard(display)
    /\ auth_callback_middleware(uid, "callback_audio_device", data,
                                callback_audio_device(uid, data, env))

----------------------------------------------------------------------------

(* Power, timer, brightness and system menus *)

\* shutdown /s /t N and shutdown /r /t N: Windows schedules the shutdown unless
\* one is already scheduled (the command then fails and the first one stays)
schedule(h, kind, seconds) ==
    IF h.timer.kind = "none" /\ seconds >= 0
    THEN [h EXCEPT !.timer = [kind |-> kind, seconds |-> seconds]]
    ELSE h

\* shutdown /a
abort(h) == [h EXCEPT !.timer = NoTimer]

\* menu_power and menu_timers: a new message with the menu
menu_power(uid) ==
    IF ~is_authorized(uid)
    THEN /\ Ran(uid, "message", "menu_power", <<>>, <<>>, <<>>)
         /\ UNCHANGED <<downloads, recVars, probe, hostVars>>
    ELSE /\ Ran(uid, "message", "menu_power", <<>>, <<"power_menu">>, <<>>)
         /\ display' = Render("power", 0, FALSE, 0)
         /\ UNCHANGED <<cached_volume_level, volume_interface, host,
                        downloads, recVars, probe, inflight, startup>>

menu_timers(uid) ==
    IF ~is_authorized(uid)
    THEN /\ Ran(uid, "message", "menu_timers", <<>>, <<>>, <<>>)
         /\ UNCHANGED <<downloads, recVars, probe, hostVars>>
    ELSE /\ Ran(uid, "message", "menu_timers", <<>>, <<"timer_menu">>, <<>>)
         /\ display' = Render("timer", 0, FALSE, 0)
         /\ UNCHANGED <<cached_volume_level, volume_interface, host,
                        downloads, recVars, probe, inflight, startup>>

MessageMenuPower(uid) == auth_middleware(uid, "menu_power", <<>>, menu_power(uid))

MessageMenuTimers(uid) == auth_middleware(uid, "menu_timers", <<>>, menu_timers(uid))

\* callback_power: no edit_text is inside a try block
callback_power(uid, data) ==
    LET action == remove_all(data, POWER)
        h == IF action = SHUTDOWN THEN schedule(host, "shutdown", 5)
             ELSE IF action = RESTART THEN schedule(host, "restart", 5)
             ELSE IF action = CANCEL THEN abort(host)
             ELSE host
        new == IF action = SHUTDOWN THEN Render("shutting_down", 0, FALSE, 0)
               ELSE IF action = RESTART THEN Render("restarting", 0, FALSE, 0)
               ELSE IF action = CANCEL THEN Render("power_cancelled", 0, FALSE, 0)
               ELSE IF action = TIMERS THEN Render("timer", 0, FALSE, 0)
               ELSE display
        said == IF action \in {SHUTDOWN, RESTART, CANCEL}
                THEN <<"answer">> \o bare_edit(new, <<>>)
                ELSE IF action \in {SLEEP, LOCK} THEN <<"answer">>
                ELSE IF action = TIMERS THEN bare_edit(new, <<"answer">>)
                ELSE <<>>
        called == IF action = SHUTDOWN
                  THEN <<[provider |-> "shutdown", arg |-> 5]>>
                  ELSE IF action = RESTART
                  THEN <<[provider |-> "restart", arg |-> 5]>>
                  ELSE IF action = SLEEP
                  THEN <<[provider |-> "sleep", arg |-> 0]>>
                  ELSE IF action = LOCK
                  THEN <<[provider |-> "lock", arg |-> 0]>>
                  ELSE IF action = CANCEL
                  THEN <<[provider |-> "shutdown_abort", arg |-> 0]>>
                  ELSE <<>>
    IN  IF ~is_authorized(uid)
        THEN /\ Ran(uid, "callback", "callback_power", data,
                    <<"answer_no_access">>, <<>>)
             /\ UNCHANGED <<downloads, recVars, probe, hostVars>>
        ELSE /\ Ran(uid, "callback", "callback_power", data, said, called)
             /\ host' = h
             /\ display' = new
             /\ UNCHANGED <<cached_volume_level, volume_interface,
                            downloads, recVars, probe, inflight, startup>>

CallbackPower(uid, data) ==
    /\ data \in Keyboard(display)
    /\ auth_callback_middleware(uid, "callback_power", data, callback_power(uid, data))

\* a timer callback whose Back button also aborts the pending shutdown
callback_timer_back_aborts(uid, data) ==
    LET action == remove_all(data, TIMER)
        number == parse_int(action)
        seconds == number.value
        h == IF action \in {CANCEL, BACK} THEN abort(host)
             ELSE IF number.ok THEN schedule(host, "shutdown", seconds)
             ELSE host
        new == IF action = CANCEL THEN Render("timer_cancelled", 0, FALSE, 0)
               ELSE IF action = BACK THEN Render("power", 0, FALSE, 0)
               ELSE IF number.ok THEN Render("timer_set", seconds \div 60, FALSE, 0)
               ELSE display
        said == IF action = CANCEL THEN <<"answer">> \o bare_edit(new, <<>>)
                ELSE IF action = BACK THEN bare_edit(new, <<"answer">>)
                ELSE IF number.ok THEN <<"answer">> \o bare_edit(new, <<>>)
                ELSE <<"raise">>
        called == IF action \in {CANCEL, BACK}
                  THEN <<[provider |-> "shutdown_abort", arg |-> 0]>>
                  ELSE IF number.ok
                  THEN <<[provider |-> "shutdown", arg |-> seconds]>>
                  ELSE <<>>
    IN  IF ~is_authorized(uid)
        THEN /\ Ran(uid, "callback", "callback_timer", data,
                    <<"answer_no_access">>, <<>>)
             /\ UNCHANGED <<downloads, recVars, probe, hostVars>>
        ELSE /\ Ran(uid, "callback", "callback_timer", data, said, called)
             /\ host' = h
             /\ display' = new
             /\ UNCHANGED <<cached_volume_level, volume_interface,
                            downloads, recVars, probe, inflight, startup>>

\* callback_timer: no edit_text is inside a try block; int() on a token that is
\* not a number raises out of the handler
callback_timer(uid, data) ==
    LET action == remove_all(data, TIMER)
        number == parse_int(action)
        seconds == number.value
        h == IF action = CANCEL THEN abort(host)
             ELSE IF action = BACK THEN host
             ELSE IF number.ok THEN schedule(host, "shutdown", seconds)
             ELSE host
        new == IF action = CANCEL THEN Render("timer_cancelled", 0, FALSE, 0)
               ELSE IF action = BACK THEN Render("power", 0, FALSE, 0)
               ELSE IF number.ok THEN Render("timer_set", seconds \div 60, FALSE, 0)
               ELSE display
        said == IF action = CANCEL THEN <<"answer">> \o bare_edit(new, <<>>)
                ELSE IF action = BACK THEN bare_edit(new, <<"answer">>)
                ELSE IF number.ok THEN <<"answer">> \o bare_edit(new, <<>>)
                ELSE <<"raise">>
        called == IF action = CANCEL
                  THEN <<[provider |-> "shutdown_abort", arg |-> 0]>>
                  ELSE IF action = BACK THEN <<>>
                  ELSE IF number.ok
                  THEN <<[provider |-> "shutdown", arg |-> seconds]>>
                  ELSE <<>>
    IN  IF ~is_authorized(uid)
        THEN /\ Ran(uid, "callback", "callback_timer", data,
                    <<"answer_no_access">>, <<>>)
             /\ UNCHANGED <<downloads, recVars, probe, hostVars>>
        ELSE /\ Ran(uid, "callback", "callback_timer", data, said, called)
             /\ host' = h
             /\ display' = new
             /\ UNCHANGED <<cached_volume_level, volume_interface,
                            downloads, recVars, probe, inflight, startup>>

CallbackTimer(uid, data) ==
    /\ data \in Keyboard(display)
    /\ auth_callback_middleware(uid, "callback_timer", data, callback_timer(uid, data))

\* a call of screen_brightness_control answers or raises
BrightnessOutcomes == {"ok", "raises"}

\* get_brightness: -1 when the library raises
get_brightness(h, sbc) == IF sbc = "ok" THEN h.brightness ELSE 0 - 1

\* set_brightness: the PC after the call
set_brightness(h, level, sbc) ==
    IF sbc = "ok" THEN [h EXCEPT !.brightness = clamp(level)] ELSE h

\* the render of the brightness menu by the callback
brightness_menu(h, sbc) == Render("brightness", get_brightness(h, sbc), FALSE, 0)

\* menu_brightness: its text for an unavailable brightness differs from the
\* callback's
menu_brightness(uid) ==
    IF ~is_authorized(uid)
    THEN /\ Ran(uid, "message", "menu_brightness", <<>>, <<>>, <<>>)
         /\ UNCHANGED <<downloads, recVars, probe, hostVars>>
    ELSE \E sbc \in BrightnessOutcomes :
            /\ Ran(uid, "message", "menu_brightness", <<>>, <<"brightness_menu">>, <<>>)
            /\ display' = IF sbc = "ok" THEN brightness_menu(host, sbc)
                          ELSE Render("brightness", 0 - 1, FALSE, 1)
            /\ UNCHANGED <<cached_volume_level, volume_interface, host,
                           downloads, recVars, probe, inflight, startup>>

MessageMenuBrightness(uid) ==
    auth_middleware(uid, "menu_brightness", <<>>, menu_brightness(uid))

\* callback_brightness
callback_brightness(uid, data) ==
    LET action == remove_all(data, BR)
    IN  IF ~is_authorized(uid)
        THEN /\ Ran(uid, "callback", "callback_brightness", data,
                    <<"answer_no_access">>, <<>>)
             /\ UNCHANGED <<downloads, recVars, probe, hostVars>>
        ELSE \E read \in BrightnessOutcomes, write \in BrightnessOutcomes,
                sbc \in BrightnessOutcomes :
                LET current == get_brightness(host, read)
                    level == IF action = MINUS20 THEN current - 20
                             ELSE IF action = PLUS20 THEN current + 20
                             ELSE digits_value(action, 0)
                    sets == action \in {MINUS20, PLUS20}
                            \/ \E n \in BrightnessButtons : action = str_digits(n)
                    h == IF sets THEN set_brightness(host, level, write) ELSE host
                IN  /\ Ran(uid, "callback", "callback_brightness", data,
                           guarded_edit(brightness_menu(h, sbc)) \o <<"answer">>,
                           IF sets THEN <<[provider |-> "set_brightness",
                                           arg |-> level, env |-> write,
                                           read |-> read]>>
                           ELSE <<>>)
                    /\ host' = h
                    /\ display' = brightness_menu(h, sbc)
                    /\ UNCHANGED <<cached_volume_level, volume_interface,
                                   downloads, recVars, probe, inflight, startup>>

CallbackBrightness(uid, data) ==
    /\ data \in Keyboard(display)
    /\ auth_callback_middleware(uid, "callback_brightness", data,
                                callback_brightness(uid, data))

\* the readings of psutil that a status text, a process list, a disk list or a
\* temperature list shows
Samples == {0, 1}

\* get_system_status_text: the state after its volume read, and the render
system_menu(v, env, sample) ==
    Render("system", get_current_volume(v, env).cached, FALSE, sample)

\* menu_status: a new message with the status
menu_status(uid, env) ==
    IF ~is_authorized(uid)
    THEN /\ Ran(uid, "message", "menu_status", <<>>, <<>>, <<>>)
         /\ UNCHANGED <<downloads, recVars, probe, hostVars>>
    ELSE \E sample \in Samples :
            /\ Ran(uid, "message", "menu_status", <<>>, <<"system_menu">>,
                   <<[provider |-> "get_current_volume",
                      arg |-> get_current_volume(VolState, env).cached,
                      env |-> env]>>)
            /\ Commit(get_current_volume(VolState, env))
            /\ display' = system_menu(VolState, env, sample)
            /\ UNCHANGED <<downloads, recVars, probe, inflight, startup>>

MessageMenuStatus(uid, env) ==
    auth_middleware(uid, "menu_status", <<>>, menu_status(uid, env))

\* callback_system: every edit_text is inside a try block
callback_system(uid, data, env) ==
    LET action == remove_all(data, SYS)
    IN  IF ~is_authorized(uid)
        THEN /\ Ran(uid, "callback", "callback_system", data,
                    <<"answer_no_access">>, <<>>)
             /\ UNCHANGED <<downloads, recVars, probe, hostVars>>
        ELSE IF action \in {REFRESH, BACK}
        THEN \E sample \in Samples :
                /\ Ran(uid, "callback", "callback_system", data,
                       guarded_edit(system_menu(VolState, env, sample))
                       \o <<"answer">>,
                       <<[provider |-> "get_current_volume",
                          arg |-> get_current_volume(VolState, env).cached,
                          env |-> env]>>)
                /\ Commit(get_current_volume(VolState, env))
                /\ display' = system_menu(VolState, env, sample)
                /\ UNCHANGED <<downloads, recVars, probe, inflight, startup>>
        ELSE IF action \in {PROCESSES, DISKS, TEMPS}
        THEN \E sample \in Samples :
                LET new == Render(IF action = PROCESSES THEN "processes"
                                  ELSE IF action = DISKS THEN "disks" ELSE "temps",
                                  0, FALSE, sample)
                IN  /\ Ran(uid, "callback", "callback_system", data,
                           guarded_edit(new) \o <<"answer">>, <<>>)
                    /\ display' = new
                    /\ UNCHANGED <<cached_volume_level, volume_interface, host,
                                   downloads, recVars, probe, inflight, startup>>
        ELSE /\ Ran(uid, "callback", "callback_system", data, <<>>, <<>>)
             /\ UNCHANGED <<downloads, recVars, probe, hostVars>>

CallbackSystem(uid, data, env) ==
    /\ data \in Keyboard(display)
    /\ auth_callback_middleware(uid, "callback_system", data,
                                callback_system(uid, data, env))

----------------------------------------------------------------------------

(* The media menu, the /shutdown command and the routing of callback tokens *)

MEDIA == <<"m","e","d","i","a","_">>
PLAYPAUSE == <<"p","l","a","y","p","a","u","s","e">>
NEXTTRACK == <<"n","e","x","t">>
PREVTRACK == <<"p","r","e","v">>
RECORD == <<"r","e","c","o","r","d">>

\* callback_media: the edit of media_record is outside a try block
callback_media(uid, data) ==
    LET action == remove_all(data, MEDIA)
        new == IF action = RECORD THEN Render("record", 0, FALSE, 0) ELSE display
    IN  IF ~is_authorized(uid)
        THEN /\ Ran(uid, "callback", "callback_media", data,
                    <<"answer_no_access">>, <<>>)
             /\ UNCHANGED <<downloads, recVars, probe, hostVars>>
        ELSE /\ Ran(uid, "callback", "callback_media", data,
                    IF action \in {PLAYPAUSE, NEXTTRACK, PREVTRACK} THEN <<"answer">>
                    ELSE IF action = RECORD THEN bare_edit(new, <<"answer">>)
                    ELSE <<>>,
                    IF action = PLAYPAUSE
                    THEN <<[provider |-> "media_play_pause", arg |-> 0]>>
                    ELSE IF action = NEXTTRACK
                    THEN <<[provider |-> "media_next", arg |-> 0]>>
                    ELSE IF action = PREVTRACK
                    THEN <<[provider |-> "media_prev", arg |-> 0]>>
                    ELSE <<>>)
             /\ display' = new
             /\ UNCHANGED <<cached_volume_level, volume_interface, host,
                            downloads, recVars, probe, inflight, startup>>

\* cmd_shutdown
cmd_shutdown(uid, text) ==
    LET word == second_word(text)
        number == parse_int(word)
    IN  IF ~is_authorized(uid)
        THEN /\ Ran(uid, "message", "cmd_shutdown", text, <<>>, <<>>)
             /\ UNCHANGED <<downloads, recVars, probe, hostVars>>
        ELSE IF word = <<>>
        THEN /\ Ran(uid, "message", "cmd_shutdown", text, <<"usage">>, <<>>)
             /\ UNCHANGED <<downloads, recVars, probe, hostVars>>
        ELSE IF ~number.ok
        THEN /\ Ran(uid, "message", "cmd_shutdown", text, <<"not_a_number">>, <<>>)
             /\ UNCHANGED <<downloads, recVars, probe, hostVars>>
        ELSE /\ Ran(uid, "message", "cmd_shutdown", text, <<"shutdown_set">>,
                    <<[provider |-> "shutdown", arg |-> number.value]>>)
             /\ host' = schedule(host, "shutdown", number.value)
             /\ UNCHANGED <<cached_volume_level, volume_interface, display,
                            downloads, recVars, probe, inflight, startup>>

MessageShutdown(uid, text) ==
    auth_middleware(uid, "cmd_shutdown", text, cmd_shutdown(uid, text))

\* the dispatcher: the callback handlers' F.data.startswith filters, in the
\* order of registration; a token that no filter takes is not handled (the rec_
\* handler is CallbackRecord)
Route(uid, data, env) ==
    IF startswith(data, VOL)
    THEN auth_callback_middleware(uid, "callback_volume", data,
                                  callback_volume(uid, data, env))
    ELSE IF startswith(data, AUDIO)
    THEN auth_callback_middleware(uid, "callback_audio_device", data,
                                  callback_audio_device(uid, data, env))
    ELSE IF startswith(data, POWER)
    THEN auth_callback_middleware(uid, "callback_power", data,
                                  callback_power(uid, data))
    ELSE IF startswith(data, TIMER)
    THEN auth_callback_middleware(uid, "callback_timer", data,
                                  callback_timer(uid, data))
    ELSE IF startswith(data, MEDIA)
    THEN auth_callback_middleware(uid, "callback_media", data,
                                  callback_media(uid, data))
    ELSE IF startswith(data, BR)
    THEN auth_callback_middleware(uid, "callback_brightness", data,
                                  callback_brightness(uid, data))
    ELSE IF startswith(data, SYS)
    THEN auth_callback_middleware(uid, "callback_system", data,
                                  callback_system(uid, data, env))
    ELSE auth_callback_middleware(uid, "none", data,
             /\ Ran(uid, "callback", "none", data, <<>>, <<>>)
             /\ UNCHANGED <<downloads, recVars, probe, hostVars>>)

----------------------------------------------------------------------------

(* Delta actions, one step per run between two awaits *)

\* the delta of a delta action
delta_of(action) ==
    IF action = PLUS10 THEN 10
    ELSE IF action = MINUS10 THEN 0 - 10
    ELSE IF action = PLUS20 THEN 20
    ELSE 0 - 20

\* vol_minus10 / vol_plus10 up to the await of callback.answer: read, write, and
\* the read for the answer's text
delta_volume(v, d, env) ==
    LET read == get_current_volume(v, env)
    IN  get_current_volume(set_volume(read, read.cached + d, env), env)

\* s without its i-th element
Drop(s, i) == SubSeq(s, 1, i - 1) \o SubSeq(s, i + 1, Len(s))

\* callback_volume for a delta action, from its start to its first await; the
\* handler is then suspended with its local `current`
callback_volume_begin(uid, data, env) ==
    LET action == remove_all(data, VOL)
        read == get_current_volume(VolState, env)
    IN  /\ action \in {MINUS10, PLUS10}
        /\ IF ~is_authorized(uid)
           THEN /\ Ran(uid, "callback", "callback_volume", data,
                       <<"answer_no_access">>, <<>>)
                /\ UNCHANGED <<downloads, recVars, probe, hostVars>>
           ELSE /\ Ran(uid, "callback", "callback_volume", data, <<>>,
                       <<[provider |-> "get_current_volume", arg |-> read.cached,
                          env |-> env],
                         [provider |-> "set_volume",
                          arg |-> read.cached + delta_of(action), env |-> env]>>)
                /\ Commit(delta_volume(VolState, delta_of(action), env))
                /\ inflight' = Append(inflight,
                                      [uid |-> uid, data |-> data,
                                       current |-> read.cached, render |-> NoMessage])
                /\ UNCHANGED <<display, downloads, recVars, probe, startup>>

\* callback_volume after the answer: the re-render and the guarded edit
callback_volume_resume(i) ==
    \E env \in Platforms :
        LET k == inflight[i]
            shown == get_volume_interface(get_current_volume(VolState, env), env)
        IN  /\ Ran(k.uid, "callback", "callback_volume", k.data,
                   <<"answer">> \o guarded_edit(volume_menu(VolState, env)),
                   <<[provider |-> "get_current_volume", arg |-> shown.cached,
                      env |-> env]>>)
            /\ Commit(shown)
            /\ display' = volume_menu(VolState, env)
            /\ inflight' = Drop(inflight, i)
            /\ UNCHANGED <<gateVars, downloads, recVars, probe, startup>>

\* callback_brightness for a delta action, from its start to the await of the
\* edit: read, write, read, and the text to show
callback_brightness_begin(uid, data) ==
    LET action == remove_all(data, BR)
    IN  /\ action \in {MINUS20, PLUS20}
        /\ IF ~is_authorized(uid)
           THEN /\ Ran(uid, "callback", "callback_brightness", data,
                       <<"answer_no_access">>, <<>>)
                /\ UNCHANGED <<downloads, recVars, probe, hostVars>>
           ELSE \E read \in BrightnessOutcomes, write \in BrightnessOutcomes,
                   sbc \in BrightnessOutcomes :
                   LET current == get_brightness(host, read)
                       h == set_brightness(host, current + delta_of(action), write)
                   IN  /\ Ran(uid, "callback", "callback_brightness", data, <<>>,
                              <<[provider |-> "set_brightness",
                                 arg |-> current + delta_of(action), env |-> write,
                                 read |-> read]>>)
                       /\ host' = h
                       /\ inflight' = Append(inflight,
                                             [uid |-> uid, data |-> data,
                                              current |-> current,
                                              render |-> brightness_menu(h, sbc)])
                       /\ UNCHANGED <<cached_volume_level, volume_interface,
                                      display, downloads, recVars, probe, startup>>

\* callback_brightness from the guarded edit on
callback_brightness_resume(i) ==
    LET k == inflight[i]
    IN  /\ Ran(k.uid, "callback", "callback_brightness", k.data,
               guarded_edit(k.render) \o <<"answer">>, <<>>)
        /\ display' = k.render
        /\ inflight' = Drop(inflight, i)
        /\ UNCHANGED <<gateVars, cached_volume_level, volume_interface, host,
                       downloads, recVars, probe, startup>>

\* a delta callback arrives while at most cap - 1 handlers are suspended
DeltaBegin(uid, data, env, cap) ==
    /\ Len(inflight) < cap
    /\ IF startswith(data, VOL)
       THEN auth_callback_middleware(uid, "callback_volume", data,
                                     callback_volume_begin(uid, data, env))
       ELSE auth_callback_middleware(uid, "callback_brightness", data,
                                     callback_brightness_begin(uid, data))

\* the event loop resumes a suspended handler
DeltaResume(i) ==
    IF startswith(inflight[i].data, VOL)
    THEN callback_volume_resume(i)
    ELSE callback_brightness_resume(i)

----------------------------------------------------------------------------

(* Startup: the broadcast of main() and the start of polling *)

\* config.ALLOWED_USER_IDS in the order the for loop visits it
allowed_list == <<1, 2>>

\* main() has been entered and has sent nothing
AtStart ==
    [pc |-> "main", uptime |-> "unread", next |-> 1,
     attempts |-> [u \in ALLOWED_USER_IDS |-> 0], delivered |-> {}]

\* the broadcast reached every operator and dp.start_polling runs: the state in
\* which the handlers are studied
Polling ==
    [pc |-> "polling", uptime |-> "returned", next |-> Len(allowed_list) + 1,
     attempts |-> [u \in ALLOWED_USER_IDS |-> 1], delivered |-> ALLOWED_USER_IDS]

\* nothing but startup changes
StartupOnly ==
    UNCHANGED <<gateVars, last, handled, downloads, recVars, probe,
                cached_volume_level, volume_interface, host, display, inflight>>

\* main up to the loop of send_startup_notification: get_uptime returns, or
\* raises into the outer except, which prints and returns
send_startup_notification_begin ==
    /\ startup.pc = "main"
    /\ \E uptime \in {"returned", "raised"} :
          startup' = [startup EXCEPT
                         !.uptime = uptime,
                         !.pc = IF uptime = "raised" \/ Len(allowed_list) = 0
                                THEN "notified" ELSE "sending"]
    /\ StartupOnly

\* a loop body without the inner try: a send_message that raises ends the loop
\* in the outer except
send_startup_notification_send_once ==
    /\ startup.pc = "sending"
    /\ \E outcome \in {"sent", "raises"} :
          LET u == allowed_list[startup.next]
          IN  startup' = [startup EXCEPT
                             !.attempts[u] = @ + 1,
                             !.delivered = IF outcome = "sent" THEN @ \cup {u} ELSE @,
                             !.next = @ + 1,
                             !.pc = IF outcome = "raises"
                                       \/ startup.next = Len(allowed_list)
                                    THEN "notified" ELSE "sending"]
    /\ StartupOnly

\* one pass of the loop body: bot.send_message to the next id returns or raises,
\* and an exception is passed over
send_startup_notification_send ==
    /\ startup.pc = "sending"
    /\ \E outcome \in {"sent", "raises"} :
          LET u == allowed_list[startup.next]
          IN  startup' = [startup EXCEPT
                             !.attempts[u] = @ + 1,
                             !.delivered = IF outcome = "sent" THEN @ \cup {u} ELSE @,
                             !.next = @ + 1,
                             !.pc = IF startup.next = Len(allowed_list)
                                    THEN "notified" ELSE "sending"]
    /\ StartupOnly

\* main after send_startup_notification: dp.start_polling
start_polling ==
    /\ startup.pc = "notified"
    /\ startup' = [startup EXCEPT !.pc = "polling"]
    /\ StartupOnly

----------------------------------------------------------------------------

(* Specifications *)

NoProbe == [filename |-> <<>>, verdict |-> "idle"]

\* the module globals when bot.py has been imported
Globals ==
    /\ unauthorized_attempts = [u \in Users |-> 0]
    /\ diagnostics = [u \in Users |-> {}]
    /\ last = NoEvent
    /\ handled = {}
    /\ downloads = {}
    /\ recording = FALSE
    /\ recording_data = <<>>
    /\ recording_stream = 0
    /\ streams = <<>>
    /\ cbPc = <<>>
    /\ loopPc = "idle"
    /\ probe = NoProbe
    /\ cached_volume_level = 50
    /\ volume_interface = 0
    /\ host = HostAtStart
    /\ display = NoMessage
    /\ inflight = <<>>

\* the state in which the handlers are studied: polling has started
Init == Globals /\ startup = Polling

CMD == <<"/","c","m","d">>

CoreCmdTexts ==
    { CMD,
      CMD \o <<" ","d","i","r">>,
      CMD \o <<" ","F","O","R","M","A","T"," ","C",":">> }

CoreUploadNames == { <<>>, <<"a",".","E","X","E">> }

\* the bound of Spec on the streams constructed
GateMaxStreams == 1

\* Spec: the gate in front of every kind of event. Every id sends text commands
\* and rec_ callbacks; the ids outside the allow-list also send every kind of
\* upload (the uploads of allow-listed operators are SpecUpload's).
GateEvent ==
    /\ loopPc = "idle"
    /\ \/ \E uid \in Users : MessageStart(uid)
       \/ \E uid \in Users, text \in CoreCmdTexts : MessageCmd(uid, text)
       \/ \E uid \in Strangers : MessagePhoto(uid, 0)
       \/ \E uid \in Strangers, n \in CoreUploadNames : MessageDocument(uid, n, 0)
       \/ \E uid \in Strangers, n \in CoreUploadNames : MessageVideo(uid, n, 0)
       \/ \E uid \in Strangers, n \in CoreUploadNames : MessageAudio(uid, n, 0)
       \/ \E uid \in Strangers : MessageVoice(uid, 0)
       \/ \E uid \in Users, d \in RecTokens : CallbackRecord(uid, d, GateMaxStreams)

Next ==
    \/ GateEvent
    \/ RecordStopFinish

Spec == Init /\ [][Next]_vars

----------------------------------------------------------------------------
(* The access gate, under Spec *)

UploadHandlers ==
    {"handle_photo", "handle_document", "handle_video", "handle_audio", "handle_voice"}

\* C1: for an id outside the allow-list no handler body ever runs and no
\* capability provider is called, whatever events it and the other ids send.
C1_NoHandlerForStrangers ==
    \A u \in Strangers :
        /\ u \notin handled
        /\ last.uid = u => last.gate \in {"Drop", "Alert"} /\ last.calls = <<>>

\* a stranger's upload was dropped after both allow-listed operators were served
C1_Witness ==
    /\ last.uid \in Strangers
    /\ last.handler \in UploadHandlers
    /\ unauthorized_attempts[last.uid] >= 2
    /\ handled = ALLOWED_USER_IDS

\* C2: the k-th unauthorized attempt of an id (messages and callbacks counted
\* together) prints a diagnostic record exactly when k <= MAX_ATTEMPTS; the id
\* is blocked once it has made MAX_ATTEMPTS + 1 attempts, and an event of a
\* blocked id is dropped and prints nothing.
C2_DiagnosticsUpToThreshold ==
    \A u \in Strangers :
        /\ diagnostics[u] = {k \in 1..unauthorized_attempts[u] : k <= MAX_ATTEMPTS}
        /\ is_blocked(u) <=> unauthorized_attempts[u] = MAX_ATTEMPTS + 1
        /\ (last.uid = u /\ ~last.wasBlocked) =>
              /\ last.attempt = unauthorized_attempts[u]
              /\ last.diag <=> last.attempt <= MAX_ATTEMPTS
        /\ (last.uid = u /\ last.wasBlocked) =>
              last.gate = "Drop" /\ ~last.diag

\* the attempt after the threshold: counted, not printed, and the id is blocked
C2_Witness ==
    /\ last.uid \in Strangers
    /\ ~last.wasBlocked
    /\ last.attempt = MAX_ATTEMPTS + 1
    /\ ~last.diag
    /\ is_blocked(last.uid)
    /\ diagnostics[last.uid] = 1..MAX_ATTEMPTS

\* C3: an event of an id outside the allow-list that is not yet blocked gets no
\* visible response when it is a message (/start included) and exactly one
\* "no access" alert when it is a callback; the handler is not invoked.
C3_AnswerByKind ==
    (last.uid \in Strangers /\ ~last.wasBlocked) =>
        /\ last.uid \notin handled
        /\ last.kind = "message" => last.gate = "Drop" /\ last.replies = <<>>
        /\ last.kind = "callback" =>
              last.gate = "Alert" /\ last.replies = <<"alert_no_access">>

\* /start from an id outside the allow-list, right after its callback was alerted
C3_Witness ==
    /\ last.uid \in Strangers
    /\ ~last.wasBlocked
    /\ last.handler = "cmd_start"
    /\ last.replies = <<>>
    /\ last.attempt = 2

\* C4: every event of a blocked id, message or callback, is dropped: no handler,
\* no diagnostic, no alert or other reply, and the attempt counter stays as it is.
C4_BlockedIsSilent ==
    last.wasBlocked =>
        /\ last.gate = "Drop"
        /\ last.replies = <<>>
        /\ last.calls = <<>>
        /\ ~last.diag
        /\ last.uid \notin handled
        /\ last.attempt = MAX_ATTEMPTS + 1
        /\ unauthorized_attempts[last.uid] = MAX_ATTEMPTS + 1

\* a callback of a blocked id
C4_Witness ==
    /\ last.wasBlocked
    /\ last.kind = "callback"
    /\ last.uid \in Strangers

\* C5: no step lowers an attempt counter, and an id that is blocked stays blocked.
C5_LockoutIsPermanent ==
    [][\A u \in Users :
          /\ unauthorized_attempts'[u] >= unauthorized_attempts[u]
          /\ is_blocked(u) => is_blocked(u)']_vars

\* a blocked id sent a further message and is still blocked
C5_Witness ==
    /\ last.wasBlocked
    /\ last.kind = "message"
    /\ is_blocked(last.uid)

\* C6: an allow-listed id is never counted and never blocked, and each of its
\* events is admitted to its handler, whatever the other ids have sent.
C6_AllowListedAdmitted ==
    \A u \in ALLOWED_USER_IDS :
        /\ unauthorized_attempts[u] = 0
        /\ diagnostics[u] = {}
        /\ ~is_blocked(u)
        /\ last.uid = u => last.gate = "Admit" /\ u \in handled

\* an allow-listed operator is admitted while an id outside the list is blocked
C6_Witness ==
    /\ last.uid \in ALLOWED_USER_IDS
    /\ last.gate = "Admit"
    /\ \E u \in Strangers : is_blocked(u)

----------------------------------------------------------------------------
\* C35: the attempt counter of every id stays within 0..MAX_ATTEMPTS + 1: an
\* event of a blocked id leaves the counter as it is, and every other event
\* adds at most one.
C35_CounterIsBounded ==
    /\ [](\A u \in Users : unauthorized_attempts[u] \in 0..(MAX_ATTEMPTS + 1))
    /\ [][\A u \in Users :
             /\ is_blocked(u) => unauthorized_attempts'[u] = unauthorized_attempts[u]
             /\ unauthorized_attempts'[u] <= unauthorized_attempts[u] + 1]_vars

\* an id at MAX_ATTEMPTS + 1 sent a callback and then a message, both dropped,
\* and its counter is still MAX_ATTEMPTS + 1
C35_Witness ==
    /\ last.wasBlocked
    /\ last.kind = "message"
    /\ last.attempt = MAX_ATTEMPTS + 1
    /\ unauthorized_attempts[last.uid] = MAX_ATTEMPTS + 1
    /\ \A u \in Strangers : unauthorized_attempts[u] = MAX_ATTEMPTS + 1

(* The shell command filter, under SpecCmd *)

\* str.upper(), for writing the same command in another letter case
upper_char(c) ==
    IF \E i \in 1..Len(LowerCase) : LowerCase[i] = c
    THEN UpperCase[CHOOSE i \in 1..Len(LowerCase) : LowerCase[i] = c]
    ELSE c

upper(s) == [i \in 1..Len(s) |-> upper_char(s[i])]

\* every second letter in upper case
mixed(s) == [i \in 1..Len(s) |-> IF i % 2 = 1 THEN upper_char(s[i]) ELSE s[i]]

\* command bodies that hold no pattern, some of them one character away from one
HarmlessBodies ==
    { <<"d","i","r">>,
      <<"f","o","r","m","a">>,
      <<"f","o","r"," ","m","a","t">>,
      <<"d","e","l"," "," ","/","s">>,
      <<"d","e","l"," ","/","q">>,
      <<"r","d","/","s">>,
      <<"r","m"," ","-","r"," ","-","f">>,
      <<":","(",")","{"," ",":","|">> }

CmdBodies ==
    dangerous_patterns
        \cup {upper(p) : p \in dangerous_patterns}
        \cup {mixed(p) : p \in dangerous_patterns}
        \cup HarmlessBodies

CmdBefore == { <<>>, <<"x">>, <<"e","c","h","o"," ","h","i"," ","&","&"," ">> }
CmdAfter == { <<>>, <<" ","d",":">>, <<"X">> }

\* the /cmd messages of SpecCmd: the command alone, with one argument in every
\* position and letter case, and with more than one space before the argument
CmdTexts ==
    {CMD, CMD \o <<" ">>, CMD \o <<" "," ","d","i","r">>,
     CMD \o <<" "," ","R","m"," ","-","R","f"," ","/">>}
        \cup {CMD \o <<" ">> \o a \o b \o c :
                 a \in CmdBefore, b \in CmdBodies, c \in CmdAfter}

CmdEvent ==
    /\ loopPc = "idle"
    /\ \E uid \in ALLOWED_USER_IDS, text \in CmdTexts : MessageCmd(uid, text)

NextCmd == CmdEvent

SpecCmd == Init /\ [][NextCmd]_vars

\* a is the letter b, in either case
SameLetter(a, b) ==
    \/ a = b
    \/ \E k \in 1..Len(UpperCase) :
          {a, b} \subseteq {UpperCase[k], LowerCase[k]}

\* some pattern occurs in c at some position, letter case apart
HoldsPattern(c) ==
    \E p \in dangerous_patterns :
        \E i \in 0..(Len(c) - Len(p)) :
            \A j \in 1..Len(p) : SameLetter(c[i + j], p[j])

\* the message is "/cmd", k >= 1 spaces and a command that starts at once
HasCommandAt(text, k) ==
    /\ Len(text) > Len(CMD) + k
    /\ SubSeq(text, 1, Len(CMD)) = CMD
    /\ \A j \in 1..k : text[Len(CMD) + j] = " "
    /\ text[Len(CMD) + k + 1] # " "

\* C7: a /cmd command of an authorized operator is handed to the shell exactly
\* when it holds none of the destructive patterns, wherever a pattern occurs
\* and in whatever letter case; a denied command is refused in words and the
\* shell is not called for it.
C7_ShellIffNoPattern ==
    \A k \in 1..2 :
        (last.handler = "cmd_execute" /\ last.gate = "Admit"
            /\ HasCommandAt(last.arg, k)) =>
            LET command == From(last.arg, Len(CMD) + k)
            IN  IF HoldsPattern(command)
                THEN last.calls = <<>> /\ last.replies = <<"refused">>
                ELSE /\ Len(last.calls) = 1
                     /\ last.calls[1].provider = "shell"
                     /\ last.calls[1].arg = command
                     /\ last.replies # <<"refused">>

\* "echo hi && FORMAT d:" was refused
C7_Witness ==
    /\ last.handler = "cmd_execute"
    /\ last.arg = CMD \o <<" ","e","c","h","o"," ","h","i"," ","&","&"," ",
                           "F","O","R","M","A","T"," ","d",":">>
    /\ last.replies = <<"refused">>
    /\ last.calls = <<>>

----------------------------------------------------------------------------
(* The uploads of every kind, under SpecUpload *)

UploadNames ==
    { <<>>, <<"a",".","E","X","E">>, <<"n",".","t","x","t">> }

\* the bound of SpecUpload on the files the disk holds
MaxFiles == 2

UploadEvent ==
    /\ loopPc = "idle"
    /\ \/ \E uid \in ALLOWED_USER_IDS : MessagePhoto(uid, MaxFiles)
       \/ \E uid \in ALLOWED_USER_IDS, n \in UploadNames :
             MessageDocument(uid, n, MaxFiles)
       \/ \E uid \in ALLOWED_USER_IDS, n \in UploadNames :
             MessageVideo(uid, n, MaxFiles)
       \/ \E uid \in ALLOWED_USER_IDS, n \in UploadNames :
             MessageAudio(uid, n, MaxFiles)
       \/ \E uid \in ALLOWED_USER_IDS : MessageVoice(uid, MaxFiles)

NextUpload == UploadEvent

SpecUpload == Init /\ [][NextUpload]_vars

\* the name ends in a blocked extension, letter case apart, after a stem that
\* is more than dots
EndsInBlockedExtension(name) ==
    \E e \in BLOCKED_EXTENSIONS :
        /\ Len(name) > Len(e)
        /\ \A j \in 1..Len(e) : SameLetter(name[Len(name) - Len(e) + j], e[j])
        /\ \E j \in 1..(Len(name) - Len(e)) : name[j] # "."

\* C8: every upload, of whatever type, is classified before it is downloaded:
\* no file whose name carries a blocked extension is stored in the downloads
\* directory.
C8_NoBlockedFileStored ==
    \A f \in downloads : ~EndsInBlockedExtension(f)

\* C30: no upload overwrites a file of the downloads directory: the path a
\* handler downloads to never names a file the directory already holds.
C30_NoUploadOverwrites ==
    [][\A i \in 1..Len(last'.calls) :
          last'.calls[i].provider = "download"
          => last'.calls[i].arg \notin downloads]_vars

----------------------------------------------------------------------------
(* The file classifier, under SpecFile *)

FileDirs == { <<>>, <<"d","/">>, <<"x",".","e","x","e","\\">> }

FileStems == { <<>>, <<"a">>, <<".">>, <<".",".">>, <<"a",".","b">>, <<".","a">> }

FileExts ==
    { <<>>, <<".">>, <<"e","x","e">>,
      <<".","e","x","e">>, <<".","E","X","E">>, <<".","E","x","e">>,
      <<".","v","b","s">>, <<".","V","B","S">>,
      <<".","d","l","l">>, <<".","D","L","L">>,
      <<".","j","s">>, <<".","J","s">>, <<".","j","s","x">>,
      <<".","p","s","1">>, <<".","P","S","M","1">>, <<".","l","n","k">>,
      <<".","t","x","t">>, <<".","p","n","g">>, <<".","e","x">>,
      <<".","e","x","e",".","t","x","t">>, <<".","t","x","t",".","E","X","E">>,
      <<".","e","x","e",".">>, <<".","e","x","e"," ">> }

FileTails == { <<>>, <<"/">> }

\* the filenames given to the classifier
FileNames ==
    {d \o st \o e \o t : d \in FileDirs, st \in FileStems, e \in FileExts,
                         t \in FileTails}

InitFile ==
    /\ unauthorized_attempts = [u \in Users |-> 0]
    /\ diagnostics = [u \in Users |-> {}]
    /\ last = NoEvent
    /\ handled = {}
    /\ downloads = {}
    /\ recording = FALSE
    /\ recording_data = <<>>
    /\ recording_stream = 0
    /\ streams = <<>>
    /\ cbPc = <<>>
    /\ loopPc = "idle"
    /\ probe \in {[filename |-> f, verdict |-> "none"] : f \in FileNames}
    /\ cached_volume_level = 50
    /\ volume_interface = 0
    /\ host = HostAtStart
    /\ display = NoMessage
    /\ inflight = <<>>
    /\ startup = Polling

NextFile == ApplyFileAllowed

SpecFile == InitFile /\ [][NextFile]_vars

\* n is the final component of filename: what lies between the last separator
\* that has something after it and the trailing separators
IsFinalComponent(filename, n) ==
    \E i \in 0..Len(filename) :
        \E j \in i..Len(filename) :
            /\ n = SubSeq(filename, i + 1, j)
            /\ \A k \in 1..Len(n) : ~IsSep(n[k])
            /\ i > 0 => IsSep(filename[i])
            /\ \A k \in (j + 1)..Len(filename) : IsSep(filename[k])
            /\ n = <<>> => \A k \in 1..Len(filename) : IsSep(filename[k])

----------------------------------------------------------------------------
(* The recording session, under SpecRec *)

\* the bound of SpecRec on the streams constructed
MaxStreams == 2

RecEvent ==
    /\ loopPc = "idle"
    /\ \E uid \in ALLOWED_USER_IDS, d \in RecTokens : CallbackRecord(uid, d, MaxStreams)

NextRec ==
    \/ RecEvent
    \/ RecordStopFinish
    \/ \E i \in 1..Len(streams), d \in FrameData : CallbackCheck(i, d)
    \/ \E i \in 1..Len(streams) : CallbackAppend(i)

SpecRec == Init /\ [][NextRec]_vars

\* C10: at most one recording is active and at most one capture stream is open:
\* no stream is opened while an earlier one has not been stopped and closed.
C10_OneOpenStream ==
    Cardinality(OpenStreams) <= 1

\* the rec_ tokens that callback_record reads as the start action
StartTokens == {d \in RecTokens : remove_all(d, REC) = START}

\* the rec_ tokens that callback_record reads as the stop action
StopTokens == {d \in RecTokens : remove_all(d, REC) = STOP}

\* C11: a start while a recording is active is answered "not started" and changes
\* nothing of the session: the flag, the buffered frames in their order, the
\* stream in use and every stream's status are what they were.
C11_StartWhileActiveIsNoOp ==
    [][(recording /\ \E uid \in ALLOWED_USER_IDS, d \in StartTokens :
                        CallbackRecord(uid, d, MaxStreams))
          => /\ UNCHANGED recVars
             /\ last'.replies = <<"alert_not_started">>
             /\ last'.calls = <<>>]_vars

\* a start was refused while frames were buffered and the stream was capturing
C11_Witness ==
    /\ last.handler = "callback_record"
    /\ last.arg \in StartTokens
    /\ last.replies = <<"alert_not_started">>
    /\ last.calls = <<>>
    /\ recording
    /\ Len(recording_data) >= 1
    /\ Active(recording_stream)

\* C12: a stop while no recording is active returns no data: the handler reports
\* the recording error, the flag stays down, and the buffer and every stream are
\* what they were.
C12_StopWhileIdleIsNoOp ==
    [][(~recording /\ \E uid \in ALLOWED_USER_IDS, d \in StopTokens :
                         CallbackRecord(uid, d, MaxStreams))
          => /\ UNCHANGED recVars
             /\ ~recording'
             /\ last'.calls = <<>>
             /\ last'.replies \in {<<"edit_processing", "answer", "edit_error">>,
                                   <<"raise">>}]_vars

\* a stop after an earlier recording was stopped and its stream closed
C12_Witness ==
    /\ last.handler = "callback_record"
    /\ last.arg \in StopTokens
    /\ last.replies = <<"edit_processing", "answer", "edit_error">>
    /\ last.calls = <<>>
    /\ ~recording
    /\ loopPc = "idle"
    /\ streams # <<>>
    /\ OpenStreams = {}

\* the step that completes a stop of an active recording
StopCompletes == loopPc = "stopping" /\ loopPc' = "idle"

\* the payload holds exactly the frames, in their order, after the header
HoldsFrames(payload, frames) ==
    /\ Len(payload) = Len(frames) + 1
    /\ \A i \in 1..Len(frames) : payload[i + 1] = frames[i]

\* C13 (amended): a stop of an active recording always leaves the flag down and
\* the buffer empty, and closes the stream in use. When nothing raised, a buffer of N >= 1 frames is returned as one payload that
\* holds exactly those frames in buffer order and is sent as audio; an empty
\* buffer (N = 0) returns no data and the handler reports the recording error.
C13_StopReturnsBufferedFrames ==
    [][StopCompletes =>
          /\ ~recording'
          /\ recording_data' = <<>>
          /\ Len(last'.calls) >= 1
          /\ last'.calls[1].provider = "capture_stop"
          /\ streams'[recording_stream] = "closed"
          /\ last'.calls[1].arg = "ok" =>
                IF recording_data # <<>>
                THEN /\ Len(last'.calls) = 2
                     /\ last'.calls[2].provider = "answer_audio"
                     /\ HoldsFrames(last'.calls[2].arg, recording_data)
                     /\ last'.replies =
                           <<"edit_processing", "answer", "answer_audio", "delete">>
                ELSE /\ Len(last'.calls) = 1
                     /\ last'.replies = <<"edit_processing", "answer", "edit_error">>
          /\ last'.calls[1].arg # "ok" =>
                /\ Len(last'.calls) = 1
                /\ last'.replies = <<"edit_processing", "answer", "edit_error">>]_vars

\* a recording of two different frames was stopped and sent in arrival order
C13_Witness ==
    /\ loopPc = "idle"
    /\ ~recording
    /\ recording_data = <<>>
    /\ Len(last.calls) = 2
    /\ last.calls[2].provider = "answer_audio"
    /\ Len(last.calls[2].arg) = 3
    /\ last.calls[2].arg[2] # last.calls[2].arg[3]
    /\ streams[recording_stream] = "closed"

\* C13 as stated: every stop of an active recording in which nothing raises, for
\* every N >= 0, returns an encoded payload of the N buffered frames.
C13_EveryStopYieldsPayload ==
    [][(StopCompletes /\ last'.calls[1].arg = "ok") =>
          /\ Len(last'.calls) = 2
          /\ last'.calls[2].provider = "answer_audio"
          /\ HoldsFrames(last'.calls[2].arg, recording_data)]_vars

\* a rec_start that starts the recording
StartSucceeds == RecEvent /\ recording' /\ last'.replies = <<"edit_recording", "answer_started">>

\* a rec_stop that lowers the flag
StopBegins == RecEvent /\ ~recording' /\ loopPc' = "stopping"

\* the last event was a rec_start whose try block raised
StartFailed ==
    /\ last.handler = "callback_record"
    /\ last.calls # <<>>
    /\ last.calls[1].provider = "capture"
    /\ last.calls[1].arg # "ok"

\* C38: the recording never gets stuck active. A start whose stream fails to
\* open or to start reports not-started and leaves the recording idle; every
\* stop of an active recording, whether the encoding succeeds, fails or there
\* are no frames, ends idle with the buffer empty; an active recording can
\* always be stopped and an idle one can be started.
C38_NeverStuckActive ==
    /\ [](StartFailed => ~recording /\ last.replies = <<"alert_not_started">>)
    /\ [][StopCompletes => ~recording' /\ recording_data' = <<>>]_vars
    /\ []((recording /\ loopPc = "idle") => ENABLED StopBegins)
    /\ []((~recording /\ loopPc = "idle" /\ Len(streams) < MaxStreams)
            => ENABLED StartSucceeds)

\* a start failed on an opened stream, a later start succeeded, and the stop of
\* that recording failed in the encoding: the state is idle, the buffer empty
C38_Witness ==
    /\ loopPc = "idle"
    /\ ~recording
    /\ recording_data = <<>>
    /\ Len(streams) = 2
    /\ streams[1] = "open"
    /\ streams[2] = "closed"
    /\ last.calls # <<>>
    /\ last.calls[1].provider = "capture_stop"
    /\ last.calls[1].arg = "encode_fails"

\* the last event was a start by operator a that began the recording still active
StartedBy(a) ==
    /\ recording
    /\ last.uid = a
    /\ last.arg \in StartTokens
    /\ last.replies = <<"edit_recording", "answer_started">>

\* C14: the recording belongs to the operator who started it: while operator a's
\* recording is active, a stop by another operator b does not end it and sends b
\* none of its frames, and a start by b is not refused on account of it.
C14_RecordingIsPerOperator ==
    [][\A a \in ALLOWED_USER_IDS, b \in ALLOWED_USER_IDS :
          (a # b /\ StartedBy(a)) =>
              /\ (\E d \in StopTokens : CallbackRecord(b, d, MaxStreams))
                    => recording' /\ loopPc' = "idle"
              /\ (\E d \in StartTokens : CallbackRecord(b, d, MaxStreams))
                    => last'.replies # <<"alert_not_started">>]_vars

\* no recording is active and no stop is in progress
Idle == ~recording /\ loopPc = "idle"

\* a callback that has passed its test of the flag and has not appended yet
AppendPending == \E i \in 1..Len(cbPc) : cbPc[i] # "idle"

IsPrefix(s, t) == Len(s) <= Len(t) /\ SubSeq(t, 1, Len(s)) = s

\* C15 (amended): a callback that passed its test before the flag was lowered
\* may still append while the stop is in progress, and nothing more. The capture
\* thread's test-then-append and stop_recording never lose or
\* misplace a frame, under every interleaving: while a recording is active or
\* being stopped the buffer only grows at its end; when the stop reads the
\* buffer no append is pending, so the payload holds every appended frame; and
\* whenever the recording is idle the buffer is empty and no append is pending.
C15_AppendsAndStopAreSerialised ==
    [][/\ Idle => recording_data = <<>> /\ ~AppendPending
       /\ Idle' => recording_data' = <<>> /\ ~AppendPending'
       /\ ((recording \/ loopPc = "stopping") /\ ~StopCompletes)
             => IsPrefix(recording_data, recording_data')
       /\ StopCompletes =>
             /\ ~AppendPending
             /\ last'.calls[1].arg = "ok" /\ recording_data # <<>>
                   => HoldsFrames(last'.calls[2].arg, recording_data)]_vars

\* the flag was lowered by a stop while a callback was between test and append
C15_Witness ==
    /\ ~recording
    /\ loopPc = "stopping"
    /\ cbPc[recording_stream] # "idle"
    /\ Len(recording_data) >= 1

\* C15 as stated: no frame is appended to the buffer once a stop has lowered the
\* flag of the recording.
C15_NoAppendOnceStopped ==
    [][~recording => Len(recording_data') <= Len(recording_data)]_vars

----------------------------------------------------------------------------
(* The volume, under SpecVol *)

VOLUME == <<"/","v","o","l","u","m","e">>

\* the /volume messages an operator sends: no argument, levels inside and
\* outside 0..100, and a word that is not a number
VolumeTexts ==
    {VOLUME} \cup {VOLUME \o <<" ">> \o a :
                      a \in {<<"2","9">>, <<"-","5">>, <<"1","5","0">>, <<"x">>}}

\* the vol_ buttons an operator presses
VolTokens == {VOL \o DEVICES, VOL \o BACK}

\* the operator at the volume controls
VolOperators == {1}

VolEvent ==
    \E uid \in VolOperators, env \in Platforms :
        \/ \E text \in VolumeTexts : MessageVolume(uid, text, env)
        \/ MessageMenuVolume(uid, env)
        \/ \E data \in Keyboard(display) \cap VolTokens :
              CallbackVolume(uid, data, env)
        \/ \E data \in Keyboard(display) :
              startswith(data, AUDIO) /\ CallbackAudioDevice(uid, data, env)

NextVol == VolEvent

SpecVol == Init /\ [][NextVol]_vars

\* the last event was a /volume command with a number: set_volume, then
\* get_current_volume
VolumeWasSet == last.handler = "cmd_volume" /\ Len(last.calls) = 2

\* C16: set_volume(level) immediately followed by get_current_volume() returns
\* clamp(level, 0, 100), for every integer level and whatever the state of the
\* volume handle (resolved, unresolved, failing to resolve).
C16_VolumeRoundTrip ==
    VolumeWasSet => last.calls[2].arg = clamp(last.calls[1].arg)

\* the last event ended with a volume read
VolumeWasRead ==
    /\ last.handler \in {"cmd_volume", "menu_volume", "callback_volume"}
    /\ last.calls # <<>>
    /\ last.calls[Len(last.calls)].provider = "get_current_volume"

\* the read of the last event: the value returned and the platform it met
VolumeRead == last.calls[Len(last.calls)]

\* with the handle cached so far, the platform env gives no volume
PlatformFails(env) ==
    \/ volume_interface = 0 /\ env.resolve = "raises"
    \/ env.query = "raises"

\* C17: a volume read never fails: when the handle cannot be resolved or the
\* platform query raises, the read returns the cached value and leaves it
\* unchanged; a read that succeeds returns the platform's value and caches it,
\* so the cached value is always the one most recently obtained (50 at start).
C17_ReadFallsBackToCache ==
    [][VolumeWasRead' =>
          /\ "raise" \notin {last'.replies[i] : i \in 1..Len(last'.replies)}
          /\ IF PlatformFails(VolumeRead'.env)
             THEN /\ VolumeRead'.arg = cached_volume_level
                  /\ cached_volume_level' = cached_volume_level
             ELSE cached_volume_level' = VolumeRead'.arg]_vars

\* a /volume command met a failing platform and answered with a level that an
\* earlier command had set
C17_Witness ==
    /\ VolumeWasSet
    /\ VolumeRead.env.query = "raises"
    /\ VolumeRead.arg = 100
    /\ cached_volume_level = 100

\* the audio_ tokens of a device menu
AudioTokens == {AUDIO \o str_digits(i) : i \in 0..(Cardinality(Devices) - 1)}

\* the last device selection switched the default device
Switched ==
    /\ last.handler = "callback_audio_device"
    /\ last.replies # <<>>
    /\ last.replies[1] = "answer_switched"

\* C18: every successful device switch clears the cached volume handle, so the
\* handle a later read, write or mute works through is resolved again and
\* belongs to the default device; a failed switch and a selection that is not
\* found leave the cached handle unchanged.
C18_SwitchClearsHandle ==
    /\ [](volume_interface # 0 => volume_interface = host.device)
    /\ [][\A uid \in VolOperators, env \in Platforms, data \in AudioTokens :
             CallbackAudioDevice(uid, data, env) =>
                 IF Switched' THEN volume_interface' = 0
                 ELSE volume_interface' = volume_interface]_vars

\* the default device was switched to the second device after a volume had been
\* set through the first one's handle, and the handle is gone
C18_Witness ==
    /\ Switched
    /\ host.device = 2
    /\ host.scalar[1] = to_scalar(100)
    /\ volume_interface = 0

----------------------------------------------------------------------------
(* The inline menus, under SpecMenu *)

\* the buttons an operator presses
MenuTokens ==
    {VOL \o DEVICES, VOL \o BACK, VOL \o REFRESH, VOL \o str_digits(100)}
    \cup AudioTokens
    \cup {POWER \o SHUTDOWN, POWER \o CANCEL, POWER \o TIMERS}
    \cup {TIMER \o str_digits(900), TIMER \o CANCEL, TIMER \o BACK}
    \cup {BR \o str_digits(75), BR \o REFRESH}
    \cup {SYS \o REFRESH, SYS \o PROCESSES, SYS \o BACK}

MenuMessage ==
    \E uid \in VolOperators :
        \/ \E env \in Platforms : MessageMenuVolume(uid, env)
        \/ MessageMenuPower(uid)
        \/ MessageMenuTimers(uid)
        \/ MessageMenuBrightness(uid)
        \/ \E env \in Platforms : MessageMenuStatus(uid, env)

MenuCallback ==
    \E uid \in VolOperators, data \in Keyboard(display) \cap MenuTokens :
        \/ startswith(data, VOL)
           /\ \E env \in Platforms : CallbackVolume(uid, data, env)
        \/ startswith(data, AUDIO)
           /\ \E env \in Platforms : CallbackAudioDevice(uid, data, env)
        \/ startswith(data, POWER) /\ CallbackPower(uid, data)
        \/ startswith(data, TIMER) /\ CallbackTimer(uid, data)
        \/ startswith(data, BR) /\ CallbackBrightness(uid, data)
        \/ startswith(data, SYS)
           /\ \E env \in Platforms : CallbackSystem(uid, data, env)

NextMenu == MenuMessage \/ MenuCallback

SpecMenu == Init /\ [][NextMenu]_vars

\* the handler of the last event ended in an exception
Raised == \E i \in 1..Len(last.replies) : last.replies[i] = "raise"

\* C19: in every menu namespace, an in-place edit that the transport rejects
\* because the new render equals what is displayed is passed over: the callback
\* handler completes normally and no error leaves it.
C19_RejectedEditIsSwallowed ==
    (last.kind = "callback" /\ last.gate = "Admit") => ~Raised

\* the providers that only read the PC
ReadProviders == {"get_current_volume"}

\* the last event rendered the menu `view` in place and called read providers only
WentBackTo(view) ==
    /\ ~Raised
    /\ display.view = view
    /\ \A i \in 1..Len(last.calls) : last.calls[i].provider \in ReadProviders

\* C20: the back tokens vol_back, timer_back and sys_back render the parent menu
\* and call no provider with a side effect: the volume level, the mute state,
\* the default device, the brightness, the pending shutdown timer and the
\* recording state are the same after a back action as before it.
C20_BackChangesNothing ==
    [][\A uid \in VolOperators, env \in Platforms :
          /\ CallbackVolume(uid, VOL \o BACK, env) => WentBackTo("volume")'
          /\ CallbackTimer(uid, TIMER \o BACK) => WentBackTo("power")'
          /\ CallbackSystem(uid, SYS \o BACK, env) => WentBackTo("system")'
          /\ (\/ CallbackVolume(uid, VOL \o BACK, env)
              \/ CallbackTimer(uid, TIMER \o BACK)
              \/ CallbackSystem(uid, SYS \o BACK, env))
             => /\ host' = host
                /\ UNCHANGED recVars]_vars

\* Back was pressed on a timer menu while a shutdown was scheduled: the power
\* menu is shown and the shutdown is still pending
C20_Witness ==
    /\ last.handler = "callback_timer"
    /\ last.arg = TIMER \o BACK
    /\ display.view = "power"
    /\ host.timer = [kind |-> "shutdown", seconds |-> 900]

\* C21: entering the device menu from the volume menu and pressing Back shows
\* the same text and keyboard as the volume menu's refresh action shows in the
\* same provider state.
C21_BackShowsWhatRefreshShows ==
    [][\A uid \in VolOperators, env \in Platforms :
          /\ CallbackVolume(uid, VOL \o BACK, env) => display' = refresh_render(env)
          /\ CallbackVolume(uid, VOL \o REFRESH, env) => display' = refresh_render(env)]_vars

\* Back was pressed on the device menu after a switch to the second device, whose
\* level differs from the cached one, and the volume menu shows that device
C21_Witness ==
    /\ last.handler = "callback_volume"
    /\ last.arg = VOL \o BACK
    /\ host.scalar[1] = to_scalar(100)
    /\ display = Render("volume", 50, FALSE, 2)

----------------------------------------------------------------------------
(* Callback tokens of any form, under SpecTok *)

\* the tokens a client sends: buttons, unknown actions, actions that repeat the
\* prefix, numbers off the buttons, negative numbers and words for numbers
TokTokens ==
    {<<"v","o","l","_","x">>,
     <<"v","o","l","_","v","o","l","_","m","u","t","e">>,
     <<"v","o","l","_","v","o","l","_","5","0">>,
     <<"v","o","l","_","3","0">>,
     <<"v","o","l","_","-","5">>,
     <<"v","o","l","_","1","5","0">>,
     <<"a","u","d","i","o","_","x">>,
     <<"a","u","d","i","o","_","5">>,
     <<"p","o","w","e","r","_","x">>,
     <<"t","i","m","e","r","_","x">>,
     <<"t","i","m","e","r","_","-","5">>,
     <<"t","i","m","e","r","_","6","0">>,
     <<"m","e","d","i","a","_","x">>,
     <<"b","r","_","x">>,
     <<"b","r","_","3","0">>,
     <<"b","r","_","1","0","0">>,
     <<"b","r","_","b","r","_","7","5">>,
     <<"s","y","s","_","x">>,
     <<"x","_","x">>}

SHUTDOWNCMD == <<"/","s","h","u","t","d","o","w","n">>

\* the /shutdown messages an operator sends
ShutdownTexts ==
    {SHUTDOWNCMD} \cup {SHUTDOWNCMD \o <<" ">> \o a : a \in {<<"6","0">>, <<"-","5">>, <<"x">>}}

\* the platform outcomes that matter to the handler of a token
PlatformsFor(data) ==
    IF startswith(data, VOL) \/ startswith(data, AUDIO) \/ startswith(data, SYS)
    THEN Platforms
    ELSE {[resolve |-> "resolved", query |-> "ok"]}

TokCallback ==
    \E uid \in VolOperators, data \in TokTokens :
        \E env \in PlatformsFor(data) : Route(uid, data, env)

TokMessage ==
    \E uid \in VolOperators, text \in ShutdownTexts : MessageShutdown(uid, text)

NextTok == TokCallback \/ TokMessage

SpecTok == Init /\ [][NextTok]_vars

\* the replies that are a callback.answer
Acknowledgements ==
    {"answer", "answer_muted", "answer_unmuted", "answer_no_access",
     "answer_not_found", "answer_started", "answer_switch_failed",
     "answer_switched", "alert_not_started"}

\* C34: every callback the gate admits has been acknowledged by callback.answer
\* exactly once when its handler is over, whatever its token.
C34_AcknowledgedOnce ==
    (last.kind = "callback" /\ last.gate = "Admit" /\ last.handler # "none")
    => Cardinality({i \in 1..Len(last.replies) :
                       last.replies[i] \in Acknowledgements}) = 1

\* C22: menu transitions are total: for every token <namespace>_<action> with an
\* arbitrary action string, words in place of numbers in the timer and audio
\* namespaces included, the handler of an authorized operator completes without
\* raising.
C22_EveryTokenIsHandled ==
    (last.kind = "callback" /\ is_authorized(last.uid))
        => \A i \in 1..Len(last.replies) : last.replies[i] # "raise"

\* the keywords of each menu's action table, by namespace prefix
ActionTable ==
    {<<VOL, {MUTE, MINUS10, PLUS10, REFRESH, DEVICES, BACK}>>,
     <<AUDIO, {}>>,
     <<POWER, {SHUTDOWN, RESTART, SLEEP, LOCK, CANCEL, TIMERS}>>,
     <<TIMER, {CANCEL, BACK}>>,
     <<MEDIA, {PLAYPAUSE, NEXTTRACK, PREVTRACK, RECORD}>>,
     <<REC, {START, STOP}>>,
     <<BR, {REFRESH, MINUS20, PLUS20}>>,
     <<SYS, {REFRESH, PROCESSES, DISKS, TEMPS, BACK}>>}

\* with its leading prefix alone stripped, the token's action is neither a
\* keyword of its menu nor a decimal integer
Unrecognized(data) ==
    \E row \in ActionTable :
        /\ startswith(data, row[1])
        /\ From(data, Len(row[1])) \notin row[2]
        /\ ~parse_int(From(data, Len(row[1]))).ok

\* C23: only the leading namespace prefix of a token is stripped, and a token
\* whose remaining action is neither a keyword of the menu nor a decimal integer
\* changes no state and calls no provider with a side effect (vol_vol_mute and
\* vol_vol_50 included).
C23_UnrecognizedTokenChangesNothing ==
    [][(last'.kind = "callback" /\ Unrecognized(last'.arg)) =>
          /\ host' = host
          /\ UNCHANGED recVars
          /\ \A i \in 1..Len(last'.calls) :
                last'.calls[i].provider \in ReadProviders]_vars

\* the action left when the leading prefix p is stripped from a token
Leaf(data, p) == From(data, Len(p))

\* the handle that a volume call of this step works through
HandleInUse == IF volume_interface # 0 THEN volume_interface ELSE host.device

\* the step called set_volume(n), and the level of the handle's device became
\* clamp(n) unless the platform failed, in which case the PC is as before
VolumeSetTo(n) ==
    /\ \E i \in 1..Len(last'.calls) :
          /\ last'.calls[i].provider = "set_volume"
          /\ last'.calls[i].arg = n
          /\ IF PlatformFails(last'.calls[i].env)
             THEN host' = host
             ELSE host' = [host EXCEPT !.scalar[HandleInUse] = to_scalar(clamp(n))]

\* the step called set_brightness(n), and the brightness became clamp(n) unless
\* the library failed
BrightnessSetTo(n) ==
    /\ \E i \in 1..Len(last'.calls) :
          /\ last'.calls[i].provider = "set_brightness"
          /\ last'.calls[i].arg = n
    /\ \/ host' = host
       \/ host' = [host EXCEPT !.brightness = clamp(n)]

\* the step called no provider that sets anything and left the PC as it was
NothingSet ==
    /\ host' = host
    /\ \A i \in 1..Len(last'.calls) : last'.calls[i].provider \in ReadProviders

\* the levels on the PC are within 0..100
LevelsInRange ==
    /\ host.brightness \in 0..100
    /\ \A d \in Devices : host.scalar[d][1] <= 2 ^ host.scalar[d][2]

C25_DurationIsNonNegative ==
    \A i \in 1..Len(last.calls) :
        last.calls[i].provider = "shutdown" => last.calls[i].arg >= 0

----------------------------------------------------------------------------
(* Delta actions in flight, under SpecDelta *)

\* the bound of SpecDelta on the handlers suspended at once
MaxInFlight == 2

\* the delta buttons
DeltaTokens == {VOL \o PLUS10, VOL \o MINUS10, BR \o PLUS20, BR \o MINUS20}

\* the delta buttons pressed while other handlers are suspended
FlightTokens == {VOL \o PLUS10, BR \o MINUS20}

NextDelta ==
    \/ \E uid \in VolOperators, data \in FlightTokens :
          \E env \in PlatformsFor(data) : DeltaBegin(uid, data, env, MaxInFlight)
    \/ \E i \in 1..Len(inflight) : DeltaResume(i)

SpecDelta == Init /\ [][NextDelta]_vars

----------------------------------------------------------------------------
(* Delta actions one at a time, under SpecStep *)

NextStep ==
    \/ \E uid \in VolOperators, data \in DeltaTokens :
          \E env \in PlatformsFor(data) : DeltaBegin(uid, data, env, 1)
    \/ \E i \in 1..Len(inflight) : DeltaResume(i)

SpecStep == Init /\ [][NextStep]_vars

C27_TwoDeltasAddUp ==
    [][\A uid \in VolOperators, env \in Platforms :
          ( /\ Len(inflight) = 1
            /\ inflight[1].data = VOL \o PLUS10
            /\ host.scalar[HandleInUse] = to_scalar(clamp(inflight[1].current + 10))
            /\ ~PlatformFails(env)
            /\ DeltaBegin(uid, VOL \o PLUS10, env, MaxInFlight) )
          => host'.scalar[HandleInUse] =
                 to_scalar(clamp(inflight[1].current + 20))]_vars

----------------------------------------------------------------------------

(* Text messages: commands, menu labels and plain text *)

\* the label texts of the F.text == ... filters; the icon is written as one
\* character in brackets and the letters in Latin transliteration
LABEL_VOLUME == <<"[V]"," ","G","r","o","m","k","o","s","t">>
LABEL_MEDIA == <<"[M]"," ","M","e","d","i","a">>
LABEL_POWER == <<"[P]"," ","P","i","t","a","n","i","e">>
LABEL_BRIGHTNESS == <<"[B]"," ","Y","a","r","k","o","s","t">>
LABEL_SCREENSHOT == <<"[S]"," ","S","k","r","i","n","s","h","o","t">>
LABEL_CLIPBOARD == <<"[C]"," ","B","u","f","e","r">>
LABEL_SYSTEM == <<"[Y]"," ","S","i","s","t","e","m","a">>
LABEL_HELP == <<"[H]"," ","P","o","m","o","s","h","c","h">>
LABEL_TIMERS == <<"[T]"," ","T","a","i","m","e","r","y">>
LABEL_BROWSER == <<"[W]"," ","B","r","a","u","z","e","r">>

OPENCMD == <<"/","o","p","e","n">>
KILLCMD == <<"/","k","i","l","l">>
KILLPIDCMD == <<"/","k","i","l","l","p","i","d">>
YOUTUBECMD == <<"/","y","o","u","t","u","b","e">>
GOOGLECMD == <<"/","g","o","o","g","l","e">>
HELPCMD == <<"/","h","e","l","p">>
SCREENSHOTCMD == <<"/","s","c","r","e","e","n","s","h","o","t">>
CLIPBOARDCMD == <<"/","c","l","i","p","b","o","a","r","d">>
STARTCMD == <<"/","s","t","a","r","t">>

HTTP == <<"h","t","t","p",":","/","/">>
HTTPS == <<"h","t","t","p","s",":","/","/">>
YOUTUBE_SEARCH == <<"h","t","t","p","s",":","/","/","w","w","w",".","y","o","u","t","u","b","e",".","c","o","m","/","r","e","s","u","l","t","s","?","s","e","a","r","c","h","_","q","u","e","r","y","=">>
GOOGLE_SEARCH == <<"h","t","t","p","s",":","/","/","w","w","w",".","g","o","o","g","l","e",".","c","o","m","/","s","e","a","r","c","h","?","q","=">>

\* the labels of get_main_keyboard
MainLabels ==
    {LABEL_VOLUME, LABEL_MEDIA, LABEL_POWER, LABEL_BRIGHTNESS,
     LABEL_SCREENSHOT, LABEL_CLIPBOARD, LABEL_SYSTEM, LABEL_HELP}

\* the list menu_buttons of handle_text
menu_buttons ==
    {LABEL_VOLUME, LABEL_MEDIA, LABEL_POWER, LABEL_BRIGHTNESS,
     LABEL_SCREENSHOT, LABEL_CLIPBOARD, LABEL_SYSTEM, LABEL_HELP}

\* a handler that answers and leaves the host as it is
Answers(uid, name, text, replies, calls) ==
    /\ Ran(uid, "message", name, text, replies, calls)
    /\ UNCHANGED <<downloads, recVars, probe, hostVars>>

\* str.replace(" ", "+")
plus(s) == [i \in 1..Len(s) |-> IF s[i] = " " THEN "+" ELSE s[i]]

\* a /open that opens whatever follows the command word, nothing included
cmd_open_blank(uid, text) ==
    LET args == split1(text)
        url == IF Len(args) < 2 THEN <<>> ELSE args[2]
    IN  IF ~is_authorized(uid)
        THEN Answers(uid, "cmd_open", text, <<>>, <<>>)
        ELSE Answers(uid, "cmd_open", text, <<"opening">>,
                     <<[provider |-> "webbrowser.open", arg |-> HTTPS \o url]>>)

\* cmd_open
cmd_open(uid, text) ==
    LET args == split1(text)
    IN  IF ~is_authorized(uid)
        THEN Answers(uid, "cmd_open", text, <<>>, <<>>)
        ELSE IF Len(args) < 2
        THEN Answers(uid, "cmd_open", text, <<"usage">>, <<>>)
        ELSE LET url == IF startswith(args[2], HTTP) \/ startswith(args[2], HTTPS)
                        THEN args[2] ELSE HTTPS \o args[2]
             IN  Answers(uid, "cmd_open", text, <<"opening">>,
                         <<[provider |-> "webbrowser.open", arg |-> url]>>)

\* cmd_kill: kill_process_by_name reports success or failure
cmd_kill(uid, text) ==
    LET args == split1(text)
    IN  IF ~is_authorized(uid)
        THEN Answers(uid, "cmd_kill", text, <<>>, <<>>)
        ELSE IF Len(args) < 2
        THEN Answers(uid, "cmd_kill", text, <<"usage">>, <<>>)
        ELSE \E outcome \in {"killed", "not_killed"} :
                Answers(uid, "cmd_kill", text, <<outcome>>,
                        <<[provider |-> "kill_process_by_name", arg |-> args[2]]>>)

\* cmd_killpid
cmd_killpid(uid, text) ==
    LET word == second_word(text)
        number == parse_int(word)
    IN  IF ~is_authorized(uid)
        THEN Answers(uid, "cmd_killpid", text, <<>>, <<>>)
        ELSE IF word = <<>>
        THEN Answers(uid, "cmd_killpid", text, <<"usage">>, <<>>)
        ELSE IF ~number.ok
        THEN Answers(uid, "cmd_killpid", text, <<"not_a_number">>, <<>>)
        ELSE \E outcome \in {"killed", "not_killed"} :
                Answers(uid, "cmd_killpid", text, <<outcome>>,
                        <<[provider |-> "kill_process_by_pid", arg |-> word]>>)

\* cmd_youtube
cmd_youtube(uid, text) ==
    LET args == split1(text)
    IN  IF ~is_authorized(uid)
        THEN Answers(uid, "cmd_youtube", text, <<>>, <<>>)
        ELSE IF Len(args) < 2
        THEN Answers(uid, "cmd_youtube", text, <<"usage">>, <<>>)
        ELSE Answers(uid, "cmd_youtube", text, <<"searching">>,
                     <<[provider |-> "webbrowser.open",
                        arg |-> YOUTUBE_SEARCH \o plus(args[2])]>>)

\* cmd_google
cmd_google(uid, text) ==
    LET args == split1(text)
    IN  IF ~is_authorized(uid)
        THEN Answers(uid, "cmd_google", text, <<>>, <<>>)
        ELSE IF Len(args) < 2
        THEN Answers(uid, "cmd_google", text, <<"usage">>, <<>>)
        ELSE Answers(uid, "cmd_google", text, <<"searching">>,
                     <<[provider |-> "webbrowser.open",
                        arg |-> GOOGLE_SEARCH \o plus(args[2])]>>)

\* cmd_help; menu_help calls it
cmd_help(uid, name, text) ==
    IF ~is_authorized(uid)
    THEN Answers(uid, name, text, <<>>, <<>>)
    ELSE Answers(uid, name, text, <<"help">>, <<>>)

\* cmd_screenshot: take_screenshot returns the picture or raises
cmd_screenshot(uid, text) ==
    IF ~is_authorized(uid)
    THEN Answers(uid, "cmd_screenshot", text, <<>>, <<>>)
    ELSE \E outcome \in {"photo", "error"} :
            Answers(uid, "cmd_screenshot", text, <<outcome>>,
                    <<[provider |-> "take_screenshot", arg |-> <<>>]>>)

\* menu_screenshot: the notice, then as cmd_screenshot
menu_screenshot(uid, text) ==
    IF ~is_authorized(uid)
    THEN Answers(uid, "menu_screenshot", text, <<>>, <<>>)
    ELSE \E outcome \in {"photo", "error"} :
            Answers(uid, "menu_screenshot", text, <<"taking", outcome>>,
                    <<[provider |-> "take_screenshot", arg |-> <<>>]>>)

\* cmd_clipboard: pyperclip.paste returns the text or raises
cmd_clipboard(uid, text) ==
    IF ~is_authorized(uid)
    THEN Answers(uid, "cmd_clipboard", text, <<>>, <<>>)
    ELSE \E outcome \in {IF host.clipboard = <<>> THEN "empty" ELSE "text", "error"} :
            Answers(uid, "cmd_clipboard", text, <<outcome>>,
                    <<[provider |-> "pyperclip.paste", arg |-> host.clipboard]>>)

\* menu_clipboard: a picture in the clipboard is sent as a photo, else as
\* cmd_clipboard
menu_clipboard(uid, text) ==
    IF ~is_authorized(uid)
    THEN Answers(uid, "menu_clipboard", text, <<>>, <<>>)
    ELSE \E outcome \in {"photo", "error",
                         IF host.clipboard = <<>> THEN "empty" ELSE "text"} :
            Answers(uid, "menu_clipboard", text, <<outcome>>,
                    <<[provider |-> "get_clipboard_image", arg |-> <<>>]>>)

\* menu_browser: the list of the browser commands
menu_browser(uid, text) ==
    IF ~is_authorized(uid)
    THEN Answers(uid, "menu_browser", text, <<>>, <<>>)
    ELSE Answers(uid, "menu_browser", text, <<"browser_commands">>, <<>>)

\* menu_media: a new message with the media menu
menu_media(uid, text) ==
    IF ~is_authorized(uid)
    THEN Answers(uid, "menu_media", text, <<>>, <<>>)
    ELSE /\ Ran(uid, "message", "menu_media", text, <<"media_menu">>, <<>>)
         /\ display' = Render("media", 0, FALSE, 0)
         /\ UNCHANGED <<cached_volume_level, volume_interface, host,
                        downloads, recVars, probe, inflight, startup>>

\* handle_text: pyperclip.copy stores the text or raises (clip)
handle_text(uid, text, clip) ==
    IF ~is_authorized(uid)
    THEN Answers(uid, "handle_text", text, <<>>, <<>>)
    ELSE IF startswith(text, <<"/">>)
    THEN Answers(uid, "handle_text", text, <<>>, <<>>)
    ELSE IF text \in menu_buttons
    THEN Answers(uid, "handle_text", text, <<>>, <<>>)
    ELSE IF clip = "raises"
    THEN Answers(uid, "handle_text", text, <<"error">>,
                 <<[provider |-> "pyperclip.copy", arg |-> text]>>)
    ELSE /\ Ran(uid, "message", "handle_text", text, <<"copied">>,
                <<[provider |-> "pyperclip.copy", arg |-> text]>>)
         /\ host' = [host EXCEPT !.clipboard = text]
         /\ UNCHANGED <<cached_volume_level, volume_interface, display,
                        downloads, recVars, probe, inflight, startup>>

\* the command word a Command filter compares: the first word of the text
command_of(text) == IF split1(text) = <<>> THEN <<>> ELSE split1(text)[1]

\* the dispatcher of messages with a text: the Command and F.text == filters in
\* the order of registration, handle_text (F.text) last; the first filter that
\* takes the message gets it
RouteMessage(uid, text) ==
    LET cmd == command_of(text)
    IN  IF cmd = STARTCMD
        THEN auth_middleware(uid, "cmd_start", text, cmd_start(uid))
        ELSE IF cmd = HELPCMD
        THEN auth_middleware(uid, "cmd_help", text, cmd_help(uid, "cmd_help", text))
        ELSE IF text = LABEL_VOLUME
        THEN \E env \in Platforms :
                auth_middleware(uid, "menu_volume", text, menu_volume(uid, env))
        ELSE IF text = LABEL_POWER
        THEN auth_middleware(uid, "menu_power", text, menu_power(uid))
        ELSE IF text = LABEL_TIMERS
        THEN auth_middleware(uid, "menu_timers", text, menu_timers(uid))
        ELSE IF text = LABEL_BROWSER
        THEN auth_middleware(uid, "menu_browser", text, menu_browser(uid, text))
        ELSE IF text = LABEL_CLIPBOARD
        THEN auth_middleware(uid, "menu_clipboard", text, menu_clipboard(uid, text))
        ELSE IF text = LABEL_SYSTEM
        THEN \E env \in Platforms :
                auth_middleware(uid, "menu_status", text, menu_status(uid, env))
        ELSE IF text = LABEL_SCREENSHOT
        THEN auth_middleware(uid, "menu_screenshot", text, menu_screenshot(uid, text))
        ELSE IF text = LABEL_MEDIA
        THEN auth_middleware(uid, "menu_media", text, menu_media(uid, text))
        ELSE IF text = LABEL_BRIGHTNESS
        THEN auth_middleware(uid, "menu_brightness", text, menu_brightness(uid))
        ELSE IF text = LABEL_HELP
        THEN auth_middleware(uid, "menu_help", text, cmd_help(uid, "menu_help", text))
        ELSE IF cmd = VOLUME
        THEN \E env \in Platforms :
                auth_middleware(uid, "cmd_volume", text, cmd_volume(uid, text, env))
        ELSE IF cmd = SHUTDOWNCMD
        THEN auth_middleware(uid, "cmd_shutdown", text, cmd_shutdown(uid, text))
        ELSE IF cmd = OPENCMD
        THEN auth_middleware(uid, "cmd_open", text, cmd_open(uid, text))
        ELSE IF cmd = KILLCMD
        THEN auth_middleware(uid, "cmd_kill", text, cmd_kill(uid, text))
        ELSE IF cmd = KILLPIDCMD
        THEN auth_middleware(uid, "cmd_killpid", text, cmd_killpid(uid, text))
        ELSE IF cmd = YOUTUBECMD
        THEN auth_middleware(uid, "cmd_youtube", text, cmd_youtube(uid, text))
        ELSE IF cmd = GOOGLECMD
        THEN auth_middleware(uid, "cmd_google", text, cmd_google(uid, text))
        ELSE IF cmd = SCREENSHOTCMD
        THEN auth_middleware(uid, "cmd_screenshot", text, cmd_screenshot(uid, text))
        ELSE IF cmd = CMD
        THEN auth_middleware(uid, "cmd_execute", text, cmd_execute(uid, text))
        ELSE IF cmd = CLIPBOARDCMD
        THEN auth_middleware(uid, "cmd_clipboard", text, cmd_clipboard(uid, text))
        ELSE \E clip \in {"ok", "raises"} :
                auth_middleware(uid, "handle_text", text, handle_text(uid, text, clip))

\* the commands that take an argument
ArgCommands ==
    {VOLUME, SHUTDOWNCMD, OPENCMD, KILLCMD, KILLPIDCMD, YOUTUBECMD, GOOGLECMD, CMD}

\* the texts of SpecText: every label a filter is registered for, a label with
\* one more character, plain texts, an unknown command, every command alone and
\* followed by spaces only, and commands with an argument
TextTexts ==
    MainLabels \cup {LABEL_TIMERS, LABEL_BROWSER}
        \cup {LABEL_VOLUME \o <<"!">>, <<"h","i">>, <<"h","i"," ","/","x">>,
              <<"/","x">>}
        \cup ArgCommands \cup {c \o <<" ">> : c \in ArgCommands}
        \cup {STARTCMD, HELPCMD, SCREENSHOTCMD, CLIPBOARDCMD}
        \cup {OPENCMD \o <<" ","a",".","b">>, KILLCMD \o <<" ","x">>,
              KILLPIDCMD \o <<" ","7">>, KILLPIDCMD \o <<" ","x">>,
              YOUTUBECMD \o <<" ","a"," ","b">>, GOOGLECMD \o <<" ","a"," ","b">>,
              CMD \o <<" ","d","i","r">>, VOLUME \o <<" ","3","0">>,
              SHUTDOWNCMD \o <<" ","6","0">>}

TextEvent ==
    /\ loopPc = "idle"
    /\ \E uid \in VolOperators, text \in TextTexts : RouteMessage(uid, text)

NextText == TextEvent

SpecText == Init /\ [][NextText]_vars

\* C28: every text message of an authorized operator that does not start with
\* "/" and is not one of the eight labels of the main keyboard is copied into
\* the clipboard as it is (the clipboard library not raising).
C28_PlainTextIsCopied ==
    [][\A uid \in VolOperators, text \in TextTexts :
          ( /\ RouteMessage(uid, text)
            /\ ~startswith(text, <<"/">>)
            /\ text \notin MainLabels
            /\ last'.replies # <<"error">> )
          => host'.clipboard = text]_vars

\* the text is a command that takes an argument, sent without one
NoArgument(text) == \E c \in ArgCommands : split1(text) = <<c>>

\* C29: a command that takes an argument, sent by an authorized operator without
\* one (last'.arg is the text of the message), is answered with the usage hint
\* alone; no provider is called and the host, the cached level, the handle, the
\* downloads, the recording and the menu shown stay as they are.
C29_NoArgumentGivesUsage ==
    [][( /\ last'.kind = "message"
         /\ is_authorized(last'.uid)
         /\ NoArgument(last'.arg) )
          => /\ last'.replies = <<"usage">>
             /\ last'.calls = <<>>
             /\ UNCHANGED <<host, cached_volume_level, volume_interface,
                            downloads, recVars, display>>]_vars

\* /kill followed by a space only was answered with the usage hint, after a
\* shutdown had been scheduled and a text copied
C29_Witness ==
    /\ last.handler = "cmd_kill"
    /\ last.arg = KILLCMD \o <<" ">>
    /\ last.replies = <<"usage">>
    /\ host.timer # NoTimer
    /\ host.clipboard # <<>>

----------------------------------------------------------------------------
(* Startup, under SpecStartup *)

\* main() from its first line
InitStartup == Globals /\ startup = AtStart

StartupStep ==
    \/ send_startup_notification_begin
    \/ send_startup_notification_send
    \/ start_polling

\* events are taken once polling has started
PollingStep == startup.pc = "polling" /\ Next

NextStartup ==
    \/ StartupStep
    \/ PollingStep

\* main() is not held up for ever: each await of the broadcast returns or raises
SpecStartup == InitStartup /\ [][NextStartup]_vars /\ WF_vars(StartupStep)

----------------------------------------------------------------------------
(* The shell output, under SpecShell *)

\* n times the character c
Chars(c, n) == [i \in 1..n |-> c]

\* the results of SpecShell: what the command wrote is empty, short, as long as
\* the cap, longer than it, or a directory listing with its <DIR> mark; it wrote
\* to stderr or not; the run timed out or raised
ShellRuns ==
    {Completed(out, err) :
        out \in {<<>>, <<"o">>, <<"<","D","I","R",">">>, Chars("o", OUTPUT_CAP),
                 Chars("o", OUTPUT_CAP + 1)},
        err \in {<<>>, <<"e">>, Chars("e", OUTPUT_CAP + 2)}}
        \cup {TimeoutExpired, OtherError}

ShellTexts ==
    {CMD, CMD \o <<" ","d","i","r">>, CMD \o <<" ","v","e","r">>,
     CMD \o <<" ","a">>, CMD \o <<" ","b">>}

ShellEvent ==
    /\ loopPc = "idle"
    /\ \E uid \in ALLOWED_USER_IDS, text \in ShellTexts :
          auth_middleware(uid, "cmd_execute", text,
                          cmd_execute_on(uid, text, ShellRuns))

NextShell == ShellEvent

SpecShell == Init /\ [][NextShell]_vars

\* what the command wrote: stdout, or stderr when stdout is empty
Written(run) == IF run.stdout # <<>> THEN run.stdout ELSE run.stderr

\* C32: the operator is sent the output of a completed run unchanged when it has
\* at most 4000 characters (and at least one), and otherwise its first 4000
\* characters followed by the truncation marker; a run that timed out is reported
\* as such, by one reply, the shell having been called once.
C32_OutputIsCapped ==
    (last.handler = "cmd_execute" /\ Len(last.calls) > 0)
    => LET call == last.calls[1]
           written == Written(call.run)
       IN  /\ Len(last.calls) = 1
           /\ call.run.kind = "timeout" => last.replies = <<"timeout">>
           /\ (call.run.kind = "completed" /\ written # <<>>)
                => /\ last.replies = <<"output">>
                   /\ call.sent = IF Len(written) <= OUTPUT_CAP THEN written
                                  ELSE SubSeq(written, 1, OUTPUT_CAP)
                                          \o TRUNCATION_MARKER

----------------------------------------------------------------------------
(* The gate and the names of the sender, under SpecNames *)

\* event.from_user.username: none, the name of an operator, another name
Usernames == {"", "admin", "mallory"}

\* a gate that lets the name of an operator in
gate_by_name(attempts, user_id, username, kind) ==
    LET n == attempts[user_id] + 1
    IN  IF attempts[user_id] > MAX_ATTEMPTS
        THEN [decision |-> "Drop", attempts |-> attempts, printed |-> <<>>]
        ELSE IF ~is_authorized(user_id) /\ username # "admin"
        THEN [decision |-> IF kind = "callback" THEN "Alert" ELSE "Drop",
              attempts |-> [attempts EXCEPT ![user_id] = n],
              printed |-> IF n <= MAX_ATTEMPTS THEN <<user_id, username, n>> ELSE <<>>]
        ELSE [decision |-> "Admit", attempts |-> attempts, printed |-> <<>>]

\* auth_middleware (kind "message") and auth_callback_middleware (kind
\* "callback") as a function of the counters, the id and the name of the sender:
\* the decision, the counters afterwards and the record printed
gate(attempts, user_id, username, kind) ==
    LET n == attempts[user_id] + 1
    IN  IF attempts[user_id] > MAX_ATTEMPTS
        THEN [decision |-> "Drop", attempts |-> attempts, printed |-> <<>>]
        ELSE IF ~is_authorized(user_id)
        THEN [decision |-> IF kind = "callback" THEN "Alert" ELSE "Drop",
              attempts |-> [attempts EXCEPT ![user_id] = n],
              printed |-> IF n <= MAX_ATTEMPTS THEN <<user_id, username, n>> ELSE <<>>]
        ELSE [decision |-> "Admit", attempts |-> attempts, printed |-> <<>>]

\* an event of the given kind from a sender with the given name reaches the gate
NamedEvent(uid, username, kind) ==
    LET g == gate(unauthorized_attempts, uid, username, kind)
    IN  /\ unauthorized_attempts' = g.attempts
        /\ diagnostics' = IF g.printed = <<>> THEN diagnostics
                          ELSE [diagnostics EXCEPT ![uid] = @ \cup {g.printed[3]}]
        /\ last' = [uid |-> uid, kind |-> kind, handler |-> "gate",
                    arg |-> <<username>>, gate |-> g.decision,
                    attempt |-> g.attempts[uid], diag |-> g.printed # <<>>,
                    wasBlocked |-> is_blocked(uid),
                    replies |-> IF g.decision = "Alert"
                                THEN <<"alert_no_access">> ELSE <<>>,
                    calls |-> <<>>]
        /\ handled' = IF g.decision = "Admit" THEN handled \cup {uid} ELSE handled
        /\ UNCHANGED <<downloads, recVars, probe, hostVars>>

NamedEvents ==
    /\ loopPc = "idle"
    /\ \E uid \in Users, username \in Usernames, kind \in {"message", "callback"} :
          NamedEvent(uid, username, kind)

NextNames ==
    \/ NamedEvents
    \/ Next

SpecNames == Init /\ [][NextNames]_vars

\* C33: from the same counters, an event of the same kind and id has the same
\* decision and leaves the same counters whatever the name of its sender, so two
\* runs that differ in the names only agree on every decision and counter; and
\* the decision and counters of every event of the model are those of that
\* function.
C33_NamesDoNotMatter ==
    /\ [](\A uid \in Users, kind \in {"message", "callback"} :
             \A n1 \in Usernames, n2 \in Usernames :
                /\ gate(unauthorized_attempts, uid, n1, kind).decision
                      = gate(unauthorized_attempts, uid, n2, kind).decision
                /\ gate(unauthorized_attempts, uid, n1, kind).attempts
                      = gate(unauthorized_attempts, uid, n2, kind).attempts)
    /\ [][(last'.gate \in {"Admit", "Drop", "Alert"}
             /\ (last' # last \/ unauthorized_attempts' # unauthorized_attempts)
             /\ loopPc = "idle")
            => \A n \in Usernames :
                  /\ gate(unauthorized_attempts, last'.uid, n, last'.kind).decision
                        = last'.gate
                  /\ gate(unauthorized_attempts, last'.uid, n, last'.kind).attempts
                        = unauthorized_attempts']_vars

\* a sender outside the allow-list who carries the name of an operator was
\* counted up to the lockout and is dropped
C33_Witness ==
    /\ last.handler = "gate"
    /\ last.arg = <<"admin">>
    /\ ~is_authorized(last.uid)
    /\ last.gate = "Drop"
    /\ last.wasBlocked
    /\ unauthorized_attempts[last.uid] = MAX_ATTEMPTS + 1

----------------------------------------------------------------------------
(* The brightness deltas when the read fails *)

\* C39: when the brightness read of a br_minus20 or br_plus20 fails and yields
\* -1, no brightness value is written: the PC keeps its brightness.
C39_NoWriteFromSentinel ==
    [][\A uid \in VolOperators, data \in {BR \o MINUS20, BR \o PLUS20} :
          ( /\ \E env \in Platforms : DeltaBegin(uid, data, env, 1)
            /\ last'.calls[1].read = "raises" )
          => host'.brightness = host.brightness]_vars

----------------------------------------------------------------------------

(* The device callback for every integer index *)

\* audio_<i> as a client can send it: the listed indices, an index past the end
\* of the list, and negative indices within and before the list
AudioIndexTokens ==
    {AUDIO \o str_digits(i) : i \in {0, 1, 2, 5}}
    \cup {AUDIO \o <<"-">> \o str_digits(i) : i \in {1, 2, 3}}

AudioIndexEvent ==
    \E uid \in VolOperators, data \in AudioIndexTokens, env \in Platforms :
        auth_callback_middleware(uid, "callback_audio_device", data,
                                 callback_audio_device(uid, data, env))

\* the volume menu is opened: the handle is resolved and cached
AudioMenuEvent ==
    \E uid \in VolOperators, env \in Platforms : MessageMenuVolume(uid, env)

NextAudio == AudioIndexEvent \/ AudioMenuEvent

SpecAudio == Init /\ [][NextAudio]_vars

\* C37: audio_<i> makes a switch call only for an index i >= 0 within the
\* enumerated list, and then for the device at index i; for every other integer
\* i the operator is told the device was not found, no switch call is made and
\* the cached volume handle is kept.
C37_OnlyListedIndexSwitches ==
    [][last'.handler = "callback_audio_device" /\ last'.gate = "Admit"
       /\ parse_int(remove_all(last'.arg, AUDIO)).ok
       => LET i == parse_int(remove_all(last'.arg, AUDIO)).value
          IN  IF last'.calls # <<>>
              THEN i >= 0 /\ last'.calls[1].arg = i + 1
              ELSE /\ Head(last'.replies) = "answer_not_found"
                   /\ volume_interface' = volume_interface
                   /\ host'.device = host.device]_vars

----------------------------------------------------------------------------

(* The recording menu and the recording *)

\* media_record is pressed on a media menu
MediaRecordEvent ==
    /\ loopPc = "idle"
    /\ \E uid \in ALLOWED_USER_IDS :
          auth_callback_middleware(uid, "callback_media", MEDIA \o RECORD,
                                   callback_media(uid, MEDIA \o RECORD))

NextRecMenu == NextRec \/ MediaRecordEvent

SpecRecMenu == Init /\ [][NextRecMenu]_vars

\* C36: whenever the recording menu is rendered its button matches the state of
\* the recording: the menu media_record renders offers 'start', so no recording
\* is active then; the menu rec_start renders offers 'stop', and a recording is
\* active then.
C36_ButtonMatchesRecording ==
    [][/\ (/\ last'.handler = "callback_media"
           /\ last'.gate = "Admit"
           /\ remove_all(last'.arg, MEDIA) = RECORD
           /\ last'.replies = <<"edit", "answer">>)
          => (Keyboard(display') = {REC \o START} /\ ~recording')
       /\ (/\ last'.handler = "callback_record"
           /\ last'.gate = "Admit"
           /\ last'.replies = <<"edit_recording", "answer_started">>)
          => recording']_vars

====
